---- MODULE Spec2Model ----
(***************************************************************************)
(* Shortest-path routing: the graph classes, the Dijkstra and Bellman-Ford *)
(* implementations, algorithm selection and the two request orchestrators  *)
(* (claude-sonnet-4.5 RoutingService.route, routing_v2                     *)
(* RoutingService.compute_route), and the appointment_v2                   *)
(* AppointmentService, modelled from the Python sources.                   *)
(*                                                                         *)
(* Conventions.  A Python dict is a function whose DOMAIN is its key set;  *)
(* where the code iterates a dict, the insertion order is kept in a        *)
(* sequence.  Optional[T] is a sequence of length <= 1 (None == <<>>).     *)
(* A message string is the sequence of its words, so that the code's       *)
(* substring tests ("No path" in msg) are computed, not assumed.  Wall     *)
(* clock readings (timestamp_ms, compute_time_ms) are not modelled; the    *)
(* time budget is the number of timeout checks that still pass.            *)
(***************************************************************************)
EXTENDS Integers, Sequences, FiniteSets, TLC

(* The field names of the records of this module.  TLC keeps the fields of   *)
(* a record in the order in which their names first occur in the module:   *)
(* they occur here first, alphabetically, and every record below lists its *)
(* fields in that order, so that a record is in TLC's order as built.      *)
FieldNames ==
    [adj |-> 1, algo |-> 2, algorithm |-> 3, algorithm_used |-> 4,
     aliased |-> 5, allocated |-> 6, allow_retry |-> 7, appointment |-> 8,
     appointments |-> 9, attempt |-> 10, attempt_count |-> 11,
     attempts |-> 12, before |-> 13, bellman_ford |-> 14, budget |-> 15,
     cache |-> 16, cache_size |-> 17, calendar |-> 18,
     calendar_calls |-> 19, calls |-> 20, checks |-> 21, circuit |-> 22,
     code |-> 23, computed |-> 24, cost |-> 25, counter |-> 26,
     counters |-> 27, db |-> 28, dijkstra |-> 29, dist |-> 30, dst |-> 31,
     edge_count |-> 32, edges |-> 33, error |-> 34, error_count |-> 35,
     error_message |-> 36, errors |-> 37, events |-> 38, external_id |-> 39,
     external_state |-> 40, fail_count |-> 41, fail_times |-> 42,
     failed |-> 43, failures |-> 44, field |-> 45, goal |-> 46,
     graph |-> 47, has_negative_cycle |-> 48, has_negative_weights |-> 49,
     heap |-> 50, hit |-> 51, id |-> 52, idempotency |-> 53, invoked |-> 54,
     is_valid |-> 55, key |-> 56, kind |-> 57, mapping |-> 58,
     max_attempts |-> 59, max_edges |-> 60, max_failures |-> 61,
     max_nodes |-> 62, max_retries |-> 63, max_weight |-> 64,
     message |-> 65, met |-> 66, metadata |-> 67, min_weight |-> 68,
     mode |-> 69, msg |-> 70, nbrs |-> 71, negative_edges |-> 72,
     node |-> 73, node_count |-> 74, now |-> 75, op |-> 76,
     open_calls |-> 77, open_until |-> 78, opened |-> 79, opened_at |-> 80,
     out |-> 81, outbox |-> 82, owner |-> 83, path |-> 84,
     path_length |-> 85, payload |-> 86, pc |-> 87, prev |-> 88,
     provider |-> 89, provider_calls |-> 90, raised |-> 91, raises |-> 92,
     raw |-> 93, reg |-> 94, relaxed |-> 95, req |-> 96,
     request_count |-> 97, request_id |-> 98, requests_error |-> 99,
     requests_success |-> 100, requests_total |-> 101,
     reset_timeout |-> 102, resp |-> 103, retry_config |-> 104,
     returned |-> 105, runs |-> 106, same |-> 107, selected |-> 108,
     source |-> 109, src |-> 110, st |-> 111, start |-> 112, state |-> 113,
     status |-> 114, stored |-> 115, streak |-> 116, success_count |-> 117,
     svc |-> 118, target |-> 119, timeout |-> 120,
     timeout_requested |-> 121, title |-> 122, to |-> 123, type |-> 124,
     upd |-> 125, uuids |-> 126, validated |-> 127,
     validation_errors |-> 128, validations |-> 129, visited |-> 130,
     w |-> 131, weight |-> 132, work |-> 133, world |-> 134]

VARIABLES
    graph,      \* claude-sonnet-4.5 Graph: _adj, _metadata, _validated
    graph2,     \* routing_v2 Graph: _adj, _edge_count, _has_negative_weights
    graph0,     \* logistics Graph: _adj
    adds,       \* number of add_edge calls made so far
    cache,      \* claude-sonnet-4.5 RoutingService._cache
    cache2,     \* routing_v2 RoutingService._response_cache
    counters,   \* routing_v2 _request_count, _success_count, _error_count
    service2,   \* routing_v2 RoutingService.algorithm and .retry_config
    last,       \* what the most recent finished call did and returned
    calls,      \* number of orchestrator calls started so far
    thr,        \* per-thread position and locals of an in-flight call
    calendar,   \* appointment_v2 CalendarMock: mode, fail_times, calls
    appointments, \* appointment_v2 AppointmentService: db, idempotency,
                \* outbox, circuit
    now,        \* time.monotonic()
    uuids,      \* number of uuid4 identifiers drawn so far
    STORE,      \* post_change_project STORE: appointments, outbox
    CIRCUIT     \* post_change_project CIRCUIT: fail_count, open_until

vars == <<graph, graph2, graph0, adds, cache, cache2, counters, service2, last,
          calls, thr, calendar, appointments, now, uuids, STORE, CIRCUIT>>

-----------------------------------------------------------------------------
(* Bounds of the model *)

MaxAdds == 2            \* add_edge calls on a graph that starts empty
MaxCalls == 3           \* orchestrator calls in a sequential run
MaxTicks == 2           \* largest finite time budget, in timeout checks
MaxAttempts == 2        \* largest RetryConfig.max_attempts tried

(* float("inf") and float("-inf"): larger than any sum of modelled weights *)
Inf == 1000000
NegInf == -1000000

AddNodes == {"A", "B", "C"}
Weights == {-2, 1}
Alphabet == <<"A", "B", "C", "D", "E", "F", "Z">>
NoneNode == "None"

None == <<>>
Some(x) == <<x>>

(* The element of a one-element set.  The({F(v) : v \in {e}}) is F(e) with  *)
(* e evaluated once.                                                       *)
The(S) == CHOOSE y \in S : TRUE

(* str < str on node names (heapq compares (cost, node) tuples) *)
Rank(n) == CHOOSE i \in 1..Len(Alphabet) : Alphabet[i] = n

Min2(a, b) == IF a < b THEN a ELSE b
Max2(a, b) == IF a > b THEN a ELSE b

-----------------------------------------------------------------------------
(* _adj: Dict[str, Dict[str, float]], insertion-ordered.                   *)
(* A sequence of [node, nbrs], nbrs a sequence of [to, w].                 *)

EmptyAdj == <<>>

NodeSeq(adj) == [i \in 1..Len(adj) |-> adj[i].node]
NodeSet(adj) == {adj[i].node : i \in 1..Len(adj)}
has_node(adj, n) == n \in NodeSet(adj)
IndexOf(adj, n) == CHOOSE i \in 1..Len(adj) : adj[i].node = n

(* self._adj.get(node, {}) *)
AdjGet(adj, n) == IF has_node(adj, n) THEN adj[IndexOf(adj, n)].nbrs ELSE <<>>

(* d[target] = weight on an insertion-ordered dict: an existing key keeps   *)
(* its place and takes the new value, a new key goes last.                 *)
DictSet(nbrs, t, w) ==
    IF \E j \in 1..Len(nbrs) : nbrs[j].to = t
    THEN [nbrs EXCEPT ![CHOOSE j \in 1..Len(nbrs) : nbrs[j].to = t] =
                          [to |-> t, w |-> w]]
    ELSE Append(nbrs, [to |-> t, w |-> w])

(* The three statements on _adj that every add_edge shares *)
AdjAddEdge(adj, s, t, w) ==
    LET a1 == IF has_node(adj, s) THEN adj
              ELSE Append(adj, [nbrs |-> <<>>, node |-> s])
        a2 == [a1 EXCEPT ![IndexOf(a1, s)].nbrs = DictSet(@, t, w)]
    IN  IF has_node(a2, t) THEN a2
        ELSE Append(a2, [nbrs |-> <<>>, node |-> t])

(* for source, targets in _adj.items(): for target, weight in ...: yield   *)
RECURSIVE EdgesFrom(_, _)
EdgesFrom(adj, i) ==
    IF i > Len(adj) THEN <<>>
    ELSE [j \in 1..Len(adj[i].nbrs) |->
             [dst |-> adj[i].nbrs[j].to, src |-> adj[i].node,
              w |-> adj[i].nbrs[j].w]]
         \o EdgesFrom(adj, i + 1)
edges(adj) == EdgesFrom(adj, 1)

EdgeSet(adj) == {edges(adj)[k] : k \in 1..Len(edges(adj))}

-----------------------------------------------------------------------------
(* claude-sonnet-4.5 src/graph.py *)

GraphMetadata ==
    [edge_count |-> 0, has_negative_cycle |-> FALSE,
     has_negative_weights |-> FALSE, max_weight |-> NegInf, min_weight |-> Inf,
     negative_edges |-> <<>>, node_count |-> 0]

NewGraph == [adj |-> EmptyAdj, metadata |-> GraphMetadata, validated |-> FALSE]

add_edge(g, s, t, w) ==
    LET m == g.metadata
    IN  [adj |-> AdjAddEdge(g.adj, s, t, w),
         metadata |->
            [m EXCEPT !.edge_count = @ + 1,
                      !.min_weight = Min2(@, w),
                      !.max_weight = Max2(@, w),
                      !.has_negative_weights = IF w < 0 THEN TRUE ELSE @,
                      !.negative_edges =
                          IF w < 0
                          THEN Append(@, [dst |-> t, src |-> s, w |-> w])
                          ELSE @],
         validated |-> FALSE]

(* One "for source, target, weight in self.edges()" sweep of the probe *)
RECURSIVE DetectSweep(_, _, _)
DetectSweep(dist, es, k) ==
    IF k > Len(es) THEN dist
    ELSE LET e == es[k]
         IN  IF dist[e.src] # Inf /\ dist[e.src] + e.w < dist[e.dst]
             THEN DetectSweep([dist EXCEPT ![e.dst] = dist[e.src] + e.w],
                              es, k + 1)
             ELSE DetectSweep(dist, es, k + 1)

(* for _ in range(node_count - 1) *)
RECURSIVE DetectRounds(_, _, _)
DetectRounds(dist, es, n) ==
    IF n <= 0 THEN dist ELSE DetectRounds(DetectSweep(dist, es, 1), es, n - 1)

(* A faulty probe that makes the final pass without the rounds before it *)
detect_without_rounds(adj) ==
    IF Len(adj) = 0 THEN FALSE
    ELSE LET start == adj[1].node
             d == [n \in NodeSet(adj) |-> IF n = start THEN 0 ELSE Inf]
             es == edges(adj)
         IN  \E k \in 1..Len(es) :
                 d[es[k].src] # Inf /\ d[es[k].src] + es[k].w < d[es[k].dst]

detect_negative_cycle(adj) ==
    IF Len(adj) = 0 THEN FALSE
    ELSE LET start == adj[1].node
             d0 == [n \in NodeSet(adj) |-> IF n = start THEN 0 ELSE Inf]
             es == edges(adj)
             d == DetectRounds(d0, es, Len(adj) - 1)
         IN  \E k \in 1..Len(es) :
                 d[es[k].src] # Inf /\ d[es[k].src] + es[k].w < d[es[k].dst]

update_metadata(g) ==
    [g EXCEPT !.metadata.node_count = Len(g.adj),
              !.metadata.has_negative_cycle =
                  IF g.metadata.has_negative_weights
                  THEN detect_negative_cycle(g.adj) ELSE @,
              !.validated = TRUE]

(* get_metadata returns the metadata and leaves the graph validated: the    *)
(* graph after the call, whose .metadata is the value returned.            *)
get_metadata(g) == IF g.validated THEN g ELSE update_metadata(g)

-----------------------------------------------------------------------------
(* routing_v2 src/routing_v2/graph.py *)

NewGraph2 == [adj |-> EmptyAdj, edge_count |-> 0, has_negative_weights |-> FALSE]

add_edge2(g, s, t, w) ==
    [adj |-> AdjAddEdge(g.adj, s, t, w), edge_count |-> g.edge_count + 1,
     has_negative_weights |-> IF w < 0 THEN TRUE ELSE g.has_negative_weights]

has_negative_weights2(g) == g.has_negative_weights

get_negative_edges(g) == SelectSeq(edges(g.adj), LAMBDA e : e.w < 0)

(* logistics src/logistics/graph.py: the graph is its _adj *)
add_edge0(adj, s, t, w) == AdjAddEdge(adj, s, t, w)

-----------------------------------------------------------------------------
(* What a call of an algorithm or of the validator produces: a normal      *)
(* return (kind "ok") or the exception raised (kind = its class).          *)
(* algo names the implementation that produced it; checks counts the       *)
(* timeout checks made and work the heap pops or relaxation passes done.   *)

Returned(algo, path, cost, checks, work) ==
    [algo |-> algo, checks |-> checks, cost |-> cost, kind |-> "ok",
     msg |-> <<>>, path |-> path, work |-> work]

Raised(kind, algo, msg, checks, work) ==
    [algo |-> algo, checks |-> checks, cost |-> 0, kind |-> kind, msg |-> msg,
     path |-> <<>>, work |-> work]

(* dict.get(k, float("inf")) and d[k] = v *)
DGet(d, k) == IF k \in DOMAIN d THEN d[k] ELSE Inf
PGet(p, k) == IF k \in DOMAIN p THEN p[k] ELSE NoneNode
DPut(d, k, v) == [x \in DOMAIN d \cup {k} |-> IF x = k THEN v ELSE d[x]]

(* _reconstruct_path: while node is not None: append; node = prev.get(node) *)
(* fuel stops the walk of a cyclic predecessor map, which the code would   *)
(* follow for ever.                                                        *)
RECURSIVE WalkBack(_, _, _)
WalkBack(prev, node, fuel) ==
    IF node = NoneNode \/ fuel = 0 THEN <<>>
    ELSE Append(WalkBack(prev, PGet(prev, node), fuel - 1), node)

reconstruct_path(prev, goal) == WalkBack(prev, goal, Cardinality(DOMAIN prev) + 1)

(* heapq on (cost, node) tuples: the heap is the set of its entries, and    *)
(* heappop takes the least tuple, by cost and then by node name.           *)
TupleLess(x, y) == x[1] < y[1] \/ (x[1] = y[1] /\ Rank(x[2]) < Rank(y[2]))
heappop_last(heap) == CHOOSE x \in heap : \A y \in heap \ {x} : TupleLess(y, x)
heappop(heap) == CHOOSE x \in heap : \A y \in heap \ {x} : TupleLess(x, y)

(* Faulty variant: the timeout check never finds the budget exceeded *)
ExpiredNever(budget, checksDone) == FALSE

(* if timeout is not None and (time.time() - start_time) > timeout: the     *)
(* budget is the number of checks that still find the time within it.      *)
Expired(budget, checksDone) == budget # None /\ checksDone >= budget[1]

FreshSearch(start) ==
    [checks |-> 0, dist |-> [n \in {start} |-> 0], heap |-> {<<0, start>>},
     prev |-> [n \in {start} |-> NoneNode], visited |-> {}, work |-> 0]

(* The "for neighbor, weight in graph.neighbors(node).items()" loop of the  *)
(* three Dijkstra implementations; skipVisited is routing_v2's             *)
(* "if neighbor in visited: continue".                                     *)
RECURSIVE RelaxNeighbors(_, _, _, _, _, _)
RelaxNeighbors(st, node, cost, nbrs, j, skipVisited) ==
    IF j > Len(nbrs) THEN st
    ELSE LET nb == nbrs[j].to
             new_cost == cost + nbrs[j].w
         IN  IF (skipVisited /\ nb \in st.visited) \/ ~(new_cost < DGet(st.dist, nb))
             THEN RelaxNeighbors(st, node, cost, nbrs, j + 1, skipVisited)
             ELSE RelaxNeighbors(
                      [st EXCEPT !.dist = DPut(@, nb, new_cost),
                                 !.prev = DPut(@, nb, node),
                                 !.heap = @ \cup {<<new_cost, nb>>}],
                      node, cost, nbrs, j + 1, skipVisited)

NoPathFound(start, goal) == <<"No", "path", "found", "from", start, "to", goal>>
NoPath2(start, goal) == <<"No", "path", "from", start, "to", goal>>
TimeoutMsg == <<"Computation", "exceeded", "timeout", "of", "T", "s">>

(* claude-sonnet-4.5 DijkstraAlgorithm.compute: the while loop *)
RECURSIVE DijkstraLoop(_, _, _, _, _)
DijkstraLoop(adj, start, goal, budget, st) ==
    IF st.heap = {} THEN
        Raised("ValueError", "dijkstra", NoPathFound(start, goal), st.checks, st.work)
    ELSE IF Expired(budget, st.checks) THEN
        Raised("TimeoutError", "dijkstra", TimeoutMsg, st.checks + 1, st.work)
    ELSE
        LET top == heappop(st.heap)
            cost == top[1]
            node == top[2]
            popped == [st EXCEPT !.heap = @ \ {top},
                                 !.checks = IF budget = None THEN @ ELSE @ + 1,
                                 !.work = @ + 1]
            marked == [popped EXCEPT !.visited = @ \cup {node}]
        IN  IF node \in st.visited THEN
                DijkstraLoop(adj, start, goal, budget, popped)
            ELSE IF node = goal THEN
                Returned("dijkstra", reconstruct_path(marked.prev, goal), cost,
                         marked.checks, marked.work)
            ELSE IF cost > DGet(marked.dist, node) THEN
                DijkstraLoop(adj, start, goal, budget, marked)
            ELSE
                DijkstraLoop(adj, start, goal, budget,
                    RelaxNeighbors(marked, node, cost, AdjGet(adj, node), 1, FALSE))

DijkstraAlgorithm(g, start, goal, budget) ==
    DijkstraLoop(g.adj, start, goal, budget, FreshSearch(start))

(* routing_v2 DijkstraRouter.compute_shortest_path *)
NegativeWeightsMsg(n) ==
    <<"Dijkstra", "does", "not", "support", "negative", "-", "weight", "edges",
      ".", "Graph", "has", ToString(n), "negative", "edge(s)", ".", "Use",
      "Bellman-Ford", "instead", ".">>

RECURSIVE DijkstraLoop2(_, _, _, _)
DijkstraLoop2(adj, start, goal, st) ==
    IF st.heap = {} THEN
        Raised("ValueError", "Dijkstra", NoPath2(start, goal), 0, st.work)
    ELSE
        LET top == heappop(st.heap)
            cost == top[1]
            node == top[2]
            popped == [st EXCEPT !.heap = @ \ {top}, !.work = @ + 1]
            marked == [popped EXCEPT !.visited = @ \cup {node}]
        IN  IF node \in st.visited THEN
                DijkstraLoop2(adj, start, goal, popped)
            ELSE IF node = goal THEN
                Returned("Dijkstra", reconstruct_path(marked.prev, goal), cost,
                         0, marked.work)
            ELSE IF cost > DGet(marked.dist, node) THEN
                DijkstraLoop2(adj, start, goal, marked)
            ELSE
                DijkstraLoop2(adj, start, goal,
                    RelaxNeighbors(marked, node, cost, AdjGet(adj, node), 1, TRUE))

DijkstraRouter(g, start, goal) ==
    IF has_negative_weights2(g)
    THEN Raised("ValidationError", "Dijkstra",
                NegativeWeightsMsg(Len(get_negative_edges(g))), 0, 0)
    ELSE DijkstraLoop2(g.adj, start, goal, FreshSearch(start))

(* logistics dijkstra_shortest_path *)
NegativeEdgesMsg0 ==
    <<"Graph", "contains", "negative", "weight", "edges", ";", "Dijkstra",
      "cannot", "be", "used", "on", "graphs", "with", "negative", "edges">>

RECURSIVE DijkstraLoop0(_, _, _, _)
DijkstraLoop0(adj, start, goal, st) ==
    IF st.heap = {} THEN
        Raised("ValueError", "dijkstra0", NoPathFound(start, goal), 0, st.work)
    ELSE
        LET top == heappop(st.heap)
            cost == top[1]
            node == top[2]
            popped == [st EXCEPT !.heap = @ \ {top}, !.work = @ + 1]
            marked == [popped EXCEPT !.visited = @ \cup {node}]
        IN  IF node \in st.visited THEN
                DijkstraLoop0(adj, start, goal, popped)
            ELSE IF node = goal THEN
                Returned("dijkstra0", reconstruct_path(marked.prev, goal), cost,
                         0, marked.work)
            ELSE
                DijkstraLoop0(adj, start, goal,
                    RelaxNeighbors(marked, node, cost, AdjGet(adj, node), 1, FALSE))

dijkstra_shortest_path(adj, start, goal) ==
    IF \E k \in 1..Len(edges(adj)) : edges(adj)[k].w < 0
    THEN Raised("ValueError", "dijkstra0", NegativeEdgesMsg0, 0, 0)
    ELSE DijkstraLoop0(adj, start, goal, FreshSearch(start))

-----------------------------------------------------------------------------
(* Bellman-Ford *)

(* Faulty variants of the relaxation step and of the final pass, which the  *)
(* properties of Bellman-Ford must tell apart from the code: a relaxation  *)
(* that forgets the predecessor, and a final pass that finds nothing.      *)
RelaxForgetPrev(st, src, dst, w) ==
    IF st.dist[src] + w < st.dist[dst]
    THEN [st EXCEPT !.dist[dst] = st.dist[src] + w, !.upd = TRUE]
    ELSE st

ImprovingNever(st, es) == <<>>

(* if new_cost < dist[dst]: dist[dst] = new_cost; prev[dst] = src *)
Relax(st, src, dst, w) ==
    IF st.dist[src] + w < st.dist[dst]
    THEN [st EXCEPT !.dist[dst] = st.dist[src] + w, !.prev[dst] = src,
                    !.upd = TRUE]
    ELSE st

(* dist = {node: inf for node in nodes}; prev = {node: None ...};           *)
(* dist[start] = 0.0 (which adds the key when start is no node)            *)
FreshDistances(adj, start) ==
    [dist |-> [n \in NodeSet(adj) \cup {start} |-> IF n = start THEN 0 ELSE Inf],
     prev |-> [n \in NodeSet(adj) |-> NoneNode],
     upd |-> FALSE]

(* for src in nodes: if dist[src] == inf: continue;                         *)
(*     for dst, weight in graph.neighbors(src).items(): relax              *)
RECURSIVE RelaxNbrs(_, _, _, _)
RelaxNbrs(st, src, nbrs, j) ==
    IF j > Len(nbrs) THEN st
    ELSE RelaxNbrs(Relax(st, src, nbrs[j].to, nbrs[j].w), src, nbrs, j + 1)

RECURSIVE RelaxNodes(_, _, _)
RelaxNodes(st, adj, i) ==
    IF i > Len(adj) THEN st
    ELSE IF st.dist[adj[i].node] = Inf THEN RelaxNodes(st, adj, i + 1)
    ELSE RelaxNodes(RelaxNbrs(st, adj[i].node, adj[i].nbrs, 1), adj, i + 1)

(* for source, target, weight in graph.edges():                             *)
(*     if dist[source] != inf: relax                                       *)
RECURSIVE RelaxEdges(_, _, _)
RelaxEdges(st, es, k) ==
    IF k > Len(es) THEN st
    ELSE IF st.dist[es[k].src] = Inf THEN RelaxEdges(st, es, k + 1)
    ELSE RelaxEdges(Relax(st, es[k].src, es[k].dst, es[k].w), es, k + 1)

(* The edges, in iteration order, that still offer an improvement *)
Improving(st, es) ==
    SelectSeq(es, LAMBDA e : st.dist[e.src] # Inf
                             /\ st.dist[e.src] + e.w < st.dist[e.dst])

(* routing_v2 BellmanFordRouter.compute_shortest_path *)
NegativeCycleMsg2(start, e) ==
    <<"Negative", "cycle", "detected", ":", "reachable", "from", start, ".",
      "Edge", e.src, "->", e.dst, "=", ToString(e.w), "would", "improve",
      "distance", "to", e.dst, ".">>

(* for _ in range(len(nodes) - 1): every pass is made, updates or not *)
RECURSIVE Passes2(_, _, _)
Passes2(st, adj, n) ==
    IF n <= 0 THEN st ELSE Passes2(RelaxNodes(st, adj, 1), adj, n - 1)

BellmanFordRouter(g, start, goal) ==
    LET n == Len(g.adj)
        st == Passes2(FreshDistances(g.adj, start), g.adj, n - 1)
        bad == Improving(st, edges(g.adj))
        work == IF n > 1 THEN n - 1 ELSE 0
    IN  IF bad # <<>> THEN
            Raised("ValueError", "Bellman-Ford", NegativeCycleMsg2(start, bad[1]),
                   0, work)
        ELSE IF goal \notin DOMAIN st.dist THEN
            Raised("KeyError", "Bellman-Ford", <<goal>>, 0, work)
        ELSE IF st.dist[goal] = Inf THEN
            Raised("ValueError", "Bellman-Ford", NoPath2(start, goal), 0, work)
        ELSE Returned("Bellman-Ford", reconstruct_path(st.prev, goal),
                      st.dist[goal], 0, work)

(* claude-sonnet-4.5 BellmanFordAlgorithm.compute *)
NegativeCycleMsg ==
    <<"Graph", "contains", "negative", "cycle", ";", "shortest", "path",
      "undefined">>

(* for iteration in range(node_count - 1): timeout check, one sweep of the  *)
(* edges, break when the sweep updated nothing.  The result carries the    *)
(* distances, whether the budget ran out, and the checks and passes made.  *)
RECURSIVE Passes(_, _, _, _, _, _)
Passes(st, es, n, budget, checks, work) ==
    IF n <= 0 THEN [checks |-> checks, st |-> st, timeout |-> FALSE,
                    work |-> work]
    ELSE IF Expired(budget, checks) THEN
        [checks |-> checks + 1, st |-> st, timeout |-> TRUE, work |-> work]
    ELSE
        LET swept == RelaxEdges([st EXCEPT !.upd = FALSE], es, 1)
            c == IF budget = None THEN checks ELSE checks + 1
        IN  IF ~swept.upd
            THEN [checks |-> c, st |-> swept, timeout |-> FALSE,
                  work |-> work + 1]
            ELSE Passes(swept, es, n - 1, budget, c, work + 1)

BellmanFordAlgorithm(g, start, goal, budget) ==
    LET es == edges(g.adj)
        r == Passes(FreshDistances(g.adj, start), es, Len(g.adj) - 1, budget, 0, 0)
        st == r.st
    IN  IF r.timeout THEN
            Raised("TimeoutError", "bellman_ford", TimeoutMsg, r.checks, r.work)
        ELSE IF Improving(st, es) # <<>> THEN
            Raised("ValueError", "bellman_ford", NegativeCycleMsg, r.checks, r.work)
        ELSE IF goal \notin DOMAIN st.dist THEN
            Raised("KeyError", "bellman_ford", <<goal>>, r.checks, r.work)
        ELSE IF st.dist[goal] = Inf THEN
            Raised("ValueError", "bellman_ford", NoPathFound(start, goal),
                   r.checks, r.work)
        ELSE Returned("bellman_ford", reconstruct_path(st.prev, goal),
                      st.dist[goal], r.checks, r.work)

(* logistics bellman_ford_shortest_path *)
StartNotInGraphMsg0(start) == <<"Start", "node", start, "not", "in", "graph">>
NegativeCycleMsg0 == <<"Graph", "contains", "a", "negative", "-", "weight", "cycle">>

(* for _ in range(n - 1): one pass over the nodes, break when not updated *)
RECURSIVE Passes0(_, _, _, _)
Passes0(st, adj, n, work) ==
    IF n <= 0 THEN [st |-> st, work |-> work]
    ELSE LET swept == RelaxNodes([st EXCEPT !.upd = FALSE], adj, 1)
         IN  IF ~swept.upd THEN [st |-> swept, work |-> work + 1]
             ELSE Passes0(swept, adj, n - 1, work + 1)

bellman_ford_shortest_path(adj, start, goal) ==
    IF ~has_node(adj, start) THEN
        Raised("ValueError", "bellman_ford0", StartNotInGraphMsg0(start), 0, 0)
    ELSE
        LET r == Passes0(FreshDistances(adj, start), adj, Len(adj) - 1, 0)
            st == r.st
        IN  IF Improving(st, edges(adj)) # <<>> THEN
                Raised("ValueError", "bellman_ford0", NegativeCycleMsg0, 0, r.work)
            ELSE IF DGet(st.dist, goal) = Inf THEN
                Raised("ValueError", "bellman_ford0", NoPathFound(start, goal),
                       0, r.work)
            ELSE Returned("bellman_ford0", reconstruct_path(st.prev, goal),
                          st.dist[goal], 0, r.work)

-----------------------------------------------------------------------------
(* Graph construction: from_edge_list, and the graphs of the spec's         *)
(* scenarios and of the repository's tests.                                *)

RECURSIVE from_edge_list(_, _)
from_edge_list(es, k) ==
    IF k = 0 THEN NewGraph
    ELSE add_edge(from_edge_list(es, k - 1), es[k][1], es[k][2], es[k][3])

RECURSIVE from_edge_list2(_, _)
from_edge_list2(es, k) ==
    IF k = 0 THEN NewGraph2
    ELSE add_edge2(from_edge_list2(es, k - 1), es[k][1], es[k][2], es[k][3])

RECURSIVE from_edge_list0(_, _)
from_edge_list0(es, k) ==
    IF k = 0 THEN EmptyAdj
    ELSE add_edge0(from_edge_list0(es, k - 1), es[k][1], es[k][2], es[k][3])

ScenarioA == <<<<"A", "B", 5>>, <<"A", "C", 2>>, <<"C", "D", 1>>,
               <<"D", "F", -3>>, <<"F", "B", 1>>>>
ScenarioB == <<<<"A", "B", 1>>, <<"B", "C", 1>>, <<"C", "A", -3>>>>
ScenarioC == <<<<"A", "B", 1>>, <<"B", "C", 1>>, <<"D", "A", 1>>>>
ZeroCycle == <<<<"A", "B", 1>>, <<"B", "C", 1>>, <<"C", "A", -2>>, <<"C", "D", 1>>>>
NoNegatives == <<<<"A", "B", 10>>, <<"A", "C", 5>>, <<"C", "B", 3>>,
                 <<"B", "D", 2>>>>
Diamond == <<<<"A", "C", 1>>, <<"A", "B", 1>>, <<"B", "D", 1>>,
             <<"C", "D", 1>>>>
CycleAB == <<<<"A", "B", 1>>, <<"B", "A", -5>>, <<"B", "C", 1>>>>
HiddenCycle == <<<<"A", "B", 1>>, <<"C", "D", 1>>, <<"D", "C", -2>>>>

EdgeLists == {ScenarioA, ScenarioB, ScenarioC, NoNegatives, Diamond, CycleAB,
              HiddenCycle, ZeroCycle}

-----------------------------------------------------------------------------
(* appointment_v2: AppointmentService over a calendar client, with an      *)
(* idempotency table, a circuit breaker and an outbox.  time.monotonic()  *)
(* is an integer clock, one unit a second; str(uuid.uuid4()) is the next   *)
(* number of a counter, so that every identifier drawn is new.             *)

MaxFailuresDefault == 3
ResetTimeoutDefault == 2

(* CalendarMock(mode, fail_times) *)
CalendarMock(mode, fail_times) ==
    [calls |-> 0, fail_times |-> fail_times, mode |-> mode]

(* CalendarMock.create_event: counts the call, then answers by mode *)
create_event(cal) ==
    [calendar |-> [cal EXCEPT !.calls = @ + 1],
     kind |-> CASE cal.mode = "success" -> "ok"
                [] cal.mode = "transient" ->
                      IF cal.calls + 1 <= cal.fail_times
                      THEN "TransientError" ELSE "ok"
                [] cal.mode = "permanent" -> "PermanentError"
                [] OTHER -> "ok"]

CircuitBreaker ==
    [failures |-> 0, max_failures |-> MaxFailuresDefault, opened_at |-> None,
     reset_timeout |-> ResetTimeoutDefault]

record_success(c) == [c EXCEPT !.failures = 0, !.opened_at = None]

record_failure(c, t) ==
    [c EXCEPT !.failures = @ + 1,
              !.opened_at = IF c.failures + 1 >= c.max_failures
                            THEN Some(t) ELSE @]

is_open_never(c, t) == [circuit |-> c, out |-> FALSE]

(* CircuitBreaker.is_open at clock reading t: the answer and the breaker   *)
(* as the call leaves it (a lapsed breaker is reset)                       *)
is_open(c, t) ==
    IF c.opened_at = None THEN [circuit |-> c, out |-> FALSE]
    ELSE IF t - c.opened_at[1] > c.reset_timeout
    THEN [circuit |-> [c EXCEPT !.failures = 0, !.opened_at = None],
          out |-> FALSE]
    ELSE [circuit |-> c, out |-> TRUE]

(* AppointmentService(calendar_client), without the client *)
AppointmentService ==
    [circuit |-> CircuitBreaker, db |-> <<>>, idempotency |-> <<>>,
     outbox |-> <<>>]

(* The objects a call works on: the service, its calendar client, the      *)
(* clock and the identifiers drawn so far                                  *)
World(svc, cal, t, u) ==
    [appointments |-> svc, calendar |-> cal, now |-> t, uuids |-> u]

(* Python truth of an Optional[str] *)
Truthy(k) == k # None /\ k[1] # ""

(* "if idempotency_key: if idempotency_key in self.idempotency" *)
IsReplayNever(svc, key) == FALSE
IsReplay(svc, key) == Truthy(key) /\ key[1] \in DOMAIN svc.idempotency

(* "if idempotency_key: self.idempotency[idempotency_key] = result" *)
remember(svc, key, result) ==
    IF Truthy(key)
    THEN [svc EXCEPT !.idempotency = (key[1] :> result) @@ @]
    ELSE svc

create_local_pending(w, payload, external_state, external_id) ==
    [w EXCEPT !.uuids = @ + 1,
              !.appointments.db =
                  ((w.uuids + 1) :>
                      [external_id |-> external_id,
                       external_state |-> "PENDING",
                       id |-> w.uuids + 1, owner |-> payload.owner,
                       raw |-> payload, title |-> payload.title]) @@ @]

(* AppointmentService._create_local: the world after it; the record is the *)
(* one stored under the identifier drawn last                              *)
create_local(w, payload, external_state, external_id) ==
    [w EXCEPT !.uuids = @ + 1,
              !.appointments.db =
                  ((w.uuids + 1) :>
                      [external_id |-> external_id,
                       external_state |-> external_state,
                       id |-> w.uuids + 1, owner |-> payload.owner,
                       raw |-> payload, title |-> payload.title]) @@ @]

created(w) == w.appointments.db[w.uuids]

(* What a create_appointment call hands back: the world it leaves, its     *)
(* result, the create_event calls it made and how many of those were made  *)
(* with the breaker open                                                   *)
Done(w, result, made, made_open) ==
    [calendar_calls |-> made, open_calls |-> made_open, out |-> result,
     world |-> w]

(* The end of every fresh call: local record, outbox message if any,      *)
(* result, idempotency entry                                               *)
finish(w, payload, key, state, ext_id, status, queued, made, made_open) ==
    The({Done([v EXCEPT
                 !.appointments =
                     remember([@ EXCEPT !.outbox =
                                  IF queued
                                  THEN Append(@, [payload |-> created(v),
                                                  status |-> status,
                                                  type |-> "create_calendar"])
                                  ELSE @],
                              key,
                              [appointment |-> created(v), status |-> status])],
              [appointment |-> created(v), status |-> status], made, made_open)
         : v \in {create_local(w, payload, state, ext_id)}})

(* The breaker is open at clock reading t, as is_open would answer *)
OpenAt(c, t) == c.opened_at # None /\ ~(t - c.opened_at[1] > c.reset_timeout)

(* "while attempts <= max_retries": the loop from its attempts-th turn *)
RECURSIVE retry_loop(_, _, _, _, _, _, _, _)
retry_loop(w, payload, key, max_retries, backoff, attempts, made, made_open) ==
    IF attempts <= max_retries
    THEN The({
        CASE r.kind = "ok" ->
               finish([w EXCEPT !.calendar = r.calendar, !.uuids = @ + 1,
                                !.appointments.circuit = record_success(@)],
                      payload, key, "CONFIRMED", Some(w.uuids + 1),
                      "confirmed", FALSE, made + 1, o)
          [] r.kind = "TransientError" ->
               retry_loop([w EXCEPT !.calendar = r.calendar,
                                    !.appointments.circuit =
                                        record_failure(@, w.now),
                                    !.now = @ + backoff * (attempts + 1)],
                          payload, key, max_retries, backoff, attempts + 1,
                          made + 1, o)
          [] OTHER ->
               finish([w EXCEPT !.calendar = r.calendar,
                                !.appointments.circuit =
                                    record_failure(@, w.now)],
                      payload, key, "FAILED", None, "failed", TRUE,
                      made + 1, o)
        : r \in {create_event(w.calendar)},
          o \in {made_open + IF OpenAt(w.appointments.circuit, w.now)
                             THEN 1 ELSE 0}})
    ELSE finish([w EXCEPT !.appointments.circuit = record_failure(@, w.now)],
                payload, key, "PENDING", None, "pending", TRUE, made,
                made_open)

(* AppointmentService.create_appointment(payload, idempotency_key,         *)
(* max_retries, backoff); the first identifier drawn is the request_id     *)
create_appointment(w, payload, key, max_retries, backoff) ==
    IF IsReplay(w.appointments, key)
    THEN Done([w EXCEPT !.uuids = @ + 1],
              w.appointments.idempotency[key[1]], 0, 0)
    ELSE The({
        IF c.out
        THEN finish([w EXCEPT !.uuids = @ + 1, !.appointments.circuit = c.circuit],
                    payload, key, "PENDING", None, "pending", TRUE, 0, 0)
        ELSE retry_loop([w EXCEPT !.uuids = @ + 1,
                                  !.appointments.circuit = c.circuit],
                        payload, key, max_retries, backoff, 0, 0, 0)
        : c \in {is_open(w.appointments.circuit, w.now)}})

Remove(seq, k) == [j \in 1..(Len(seq) - 1) |-> IF j < k THEN seq[j] ELSE seq[j + 1]]

list_keep(seq, msg) == seq

(* list.remove(msg): drops the first element equal to msg *)
list_remove(seq, msg) ==
    IF \E k \in 1..Len(seq) : seq[k] = msg
    THEN Remove(seq, CHOOSE k \in 1..Len(seq) :
                        seq[k] = msg /\ \A j \in 1..(k - 1) : seq[j] # msg)
    ELSE seq

(* AppointmentService.flush_outbox(sender): the loop over the snapshot     *)
(* list(self.outbox) from its k-th message; raises is the set of snapshot  *)
(* positions whose send raises                                             *)
RECURSIVE flush_from(_, _, _, _, _)
flush_from(snapshot, outbox, raises, k, results) ==
    IF k > Len(snapshot) THEN [out |-> results, outbox |-> outbox]
    ELSE IF k \in raises
    THEN flush_from(snapshot,
                    [j \in 1..Len(outbox) |->
                        IF outbox[j] = snapshot[k]
                        THEN [outbox[j] EXCEPT !.status = "failed"]
                        ELSE outbox[j]],
                    raises, k + 1, results)
    ELSE flush_from(snapshot,
                    list_remove([j \in 1..Len(outbox) |->
                                    IF outbox[j] = snapshot[k]
                                    THEN [outbox[j] EXCEPT !.status = "sent"]
                                    ELSE outbox[j]],
                                [snapshot[k] EXCEPT !.status = "sent"]),
                    raises, k + 1,
                    Append(results, [msg |-> [snapshot[k] EXCEPT !.status = "sent"],
                                     resp |-> "sent"]))

flush_outbox(svc, raises) ==
    The({[out |-> f.out, svc |-> [svc EXCEPT !.outbox = f.outbox]]
         : f \in {flush_from(svc.outbox, svc.outbox, raises, 1, <<>>)}})

-----------------------------------------------------------------------------
(* post_change_project: create_appointment over the module-level STORE and *)
(* CIRCUIT.  time.time() is the clock of appointment_v2, in seconds; the   *)
(* backoff sleeps, fractions of a second, let time pass between steps.     *)

CIRCUIT_THRESHOLD == 3
CIRCUIT_OPEN_SECONDS == 2

EmptyStore == [appointments |-> <<>>, outbox |-> <<>>]
ClosedCircuit == [fail_count |-> 0, open_until |-> 0]

(* The payload ids whose hash() is even in this process *)
EvenHash == {"a1"}

(* mocks/providers.py call(name, payload): "ok" or the ProviderError raised *)
providers_call(name, payload) ==
    CASE name = "immediate" -> "ok"
      [] name = "delayed" -> "ok"
      [] name = "flaky" -> IF payload.id \in EvenHash THEN "5xx" ELSE "ok"
      [] name = "always_fail" -> "permanent-5xx"
      [] OTHER -> "unknown-provider"

(* _call_provider(provider, payload) at clock reading t: the CIRCUIT it    *)
(* leaves, whether the provider was invoked, and "ok" or the ProviderError *)
call_provider(c, t, name, payload) ==
    IF c.open_until > t
    THEN [circuit |-> c, invoked |-> FALSE, out |-> "circuit-open"]
    ELSE IF providers_call(name, payload) = "ok"
    THEN [circuit |-> [c EXCEPT !.fail_count = 0], invoked |-> TRUE,
          out |-> "ok"]
    ELSE [circuit |->
              [c EXCEPT !.fail_count = @ + 1,
                        !.open_until = IF c.fail_count + 1 >= CIRCUIT_THRESHOLD
                                       THEN t + CIRCUIT_OPEN_SECONDS ELSE @],
          invoked |-> TRUE, out |-> providers_call(name, payload)]

(* "if request_id in STORE['appointments']" *)
idempotent_hit_never(store, request_id) == FALSE
idempotent_hit(store, request_id) == request_id \in DOMAIN store.appointments

(* The allocation under the lock: the pending record and the outbox entry *)
allocate(store, request_id, payload) ==
    [appointments |->
         (request_id :> [attempts |-> 0, id |-> payload.id,
                         payload |-> payload, state |-> "pending"])
         @@ store.appointments,
     outbox |-> Append(store.outbox,
                       [payload |-> payload, request_id |-> request_id,
                        type |-> "create"])]

(* STORE['appointments'][request_id]['state'] = state, ['attempts'] = n *)
set_state_skip(store, request_id, state) == store
set_state(store, request_id, state) ==
    [store EXCEPT !.appointments[request_id].state = state]
set_attempts(store, request_id, n) ==
    [store EXCEPT !.appointments[request_id].attempts = n]

-----------------------------------------------------------------------------
(* State shared by the specifications *)

NoCall ==
    [budget |-> None, goal |-> "", id |-> "", op |-> "none", start |-> ""]

Idle == <<>>

(* The routers a routing_v2 service can be constructed with *)
Algorithms2 == {"AutoSelect", "Dijkstra", "Bellman-Ford"}

InitGraphs ==
    \/ /\ graph = NewGraph /\ graph2 = NewGraph2 /\ graph0 = EmptyAdj
       /\ adds = 0
    \/ \E es \in EdgeLists :
          /\ graph = from_edge_list(es, Len(es))
          /\ graph2 = from_edge_list2(es, Len(es))
          /\ graph0 = from_edge_list0(es, Len(es))
          /\ adds = MaxAdds

InitService ==
    /\ cache = <<>>
    /\ cache2 = <<>>
    /\ counters = [error_count |-> 0, request_count |-> 0, success_count |-> 0]
    /\ calls = 0
    /\ thr = Idle
    /\ calendar = CalendarMock("success", 0)
    /\ appointments = AppointmentService
    /\ now = 0
    /\ uuids = 0
    /\ STORE = EmptyStore
    /\ CIRCUIT = ClosedCircuit

avars == <<calendar, appointments, now, uuids, STORE, CIRCUIT>>
svars == <<cache, cache2, counters, service2, calls, thr>>
gvars == <<graph, graph2, graph0, adds>>

(* One add_edge(source, target, weight) call, on each graph class *)
AddEdge(s, t, w) ==
    /\ adds < MaxAdds
    /\ graph' = add_edge(graph, s, t, w)
    /\ graph2' = add_edge2(graph2, s, t, w)
    /\ graph0' = add_edge0(graph0, s, t, w)
    /\ adds' = adds + 1
    /\ UNCHANGED <<avars, svars, last>>

-----------------------------------------------------------------------------
(* SpecAlgo: the algorithms called directly on a constructed graph *)

SolveSonnet(start, goal) ==
    /\ last.op = "none"
    /\ last' = [bellman_ford |-> BellmanFordAlgorithm(graph, start, goal, None),
                dijkstra |-> DijkstraAlgorithm(graph, start, goal, None),
                goal |-> goal, op |-> "sonnet", start |-> start]
    /\ UNCHANGED <<avars, gvars, svars>>

SolveV2(start, goal) ==
    /\ last.op = "none"
    /\ last' = [bellman_ford |-> BellmanFordRouter(graph2, start, goal),
                dijkstra |-> DijkstraRouter(graph2, start, goal),
                goal |-> goal, op |-> "v2", start |-> start]
    /\ UNCHANGED <<avars, gvars, svars>>

SolveLogistics(start, goal) ==
    /\ last.op = "none"
    /\ last' = [bellman_ford |-> bellman_ford_shortest_path(graph0, start, goal),
                dijkstra |-> dijkstra_shortest_path(graph0, start, goal),
                goal |-> goal, op |-> "logistics", start |-> start]
    /\ UNCHANGED <<avars, gvars, svars>>

InitAlgo ==
    InitGraphs /\ InitService /\ last = NoCall
    /\ service2 = [algorithm |-> "AutoSelect", retry_config |-> [max_attempts |-> 1]]

NextAlgo ==
    \/ \E s \in AddNodes, t \in AddNodes, w \in Weights :
          last.op = "none" /\ AddEdge(s, t, w)
    \/ \E start \in NodeSet(graph.adj), goal \in NodeSet(graph.adj) :
          SolveSonnet(start, goal)
    \/ \E start \in NodeSet(graph2.adj), goal \in NodeSet(graph2.adj) :
          SolveV2(start, goal)
    \/ \E start \in NodeSet(graph0), goal \in NodeSet(graph0) :
          SolveLogistics(start, goal)

SpecAlgo == InitAlgo /\ [][NextAlgo]_vars

-----------------------------------------------------------------------------
(* Reference notions the claims are stated with, defined on the edge set    *)
(* alone (no relaxation): simple paths, their cost, reachability, and      *)
(* negative cycles.                                                        *)

InSeq(x, p) == \E i \in 1..Len(p) : p[i] = x

(* Every simple path (no node twice) that extends p along edges of E *)
RECURSIVE Extensions(_, _)
Extensions(E, p) ==
    {p} \cup UNION {Extensions(E, Append(p, e.dst)) :
                        e \in {x \in E : x.src = p[Len(p)] /\ ~InSeq(x.dst, p)}}

SimplePaths(adj, s) == Extensions(EdgeSet(adj), <<s>>)
PathsTo(adj, s, t) == {p \in SimplePaths(adj, s) : p[Len(p)] = t}
Reachable(adj, s, t) == PathsTo(adj, s, t) # {}

HasEdge(adj, u, v) == \E e \in EdgeSet(adj) : e.src = u /\ e.dst = v
WeightOf(adj, u, v) == (CHOOSE e \in EdgeSet(adj) : e.src = u /\ e.dst = v).w

RECURSIVE PathCost(_, _)
PathCost(adj, p) ==
    IF Len(p) <= 1 THEN 0
    ELSE PathCost(adj, SubSeq(p, 1, Len(p) - 1))
         + WeightOf(adj, p[Len(p) - 1], p[Len(p)])

(* p is a walk of the graph from s to t *)
IsPath(adj, p, s, t) ==
    /\ Len(p) >= 1 /\ p[1] = s /\ p[Len(p)] = t
    /\ \A i \in 1..(Len(p) - 1) : HasEdge(adj, p[i], p[i + 1])

(* A simple path from v back to v through a closing edge, of negative sum *)
NegativeCycleAt(adj, v) ==
    \E p \in SimplePaths(adj, v) :
        /\ HasEdge(adj, p[Len(p)], v)
        /\ PathCost(adj, p) + WeightOf(adj, p[Len(p)], v) < 0

NegativeCycleReachable(adj, s) ==
    \E v \in NodeSet(adj) : Reachable(adj, s, v) /\ NegativeCycleAt(adj, v)

IsMinCost(adj, s, t, c) ==
    /\ \E p \in PathsTo(adj, s, t) : PathCost(adj, p) = c
    /\ \A p \in PathsTo(adj, s, t) : PathCost(adj, p) >= c

HasNegativeEdge(adj) == \E e \in EdgeSet(adj) : e.w < 0

IsNoPath(out) ==
    out.kind = "ValueError" /\ SubSeq(out.msg, 1, 2) = <<"No", "path">>
IsNegativeCycle(out) ==
    /\ out.kind = "ValueError"
    /\ \E i \in 1..Len(out.msg) : out.msg[i] = "negative" \/ out.msg[i] = "Negative"
    /\ InSeq("cycle", out.msg)

Solved == last.op \in {"sonnet", "v2", "logistics"}

-----------------------------------------------------------------------------
(* Message text *)

(* pat in msg *)
Contains(msg, pat) ==
    \E i \in 1..(Len(msg) - Len(pat) + 1) : SubSeq(msg, i, i + Len(pat) - 1) = pat

(* str.lower(), word by word *)
LowerWord(wd) ==
    CASE wd = "Graph" -> "graph" [] wd = "No" -> "no"
      [] wd = "Negative" -> "negative" [] wd = "Start" -> "start"
      [] wd = "Goal" -> "goal" [] wd = "Computation" -> "computation"
      [] wd = "Edge" -> "edge" [] wd = "Dijkstra" -> "dijkstra"
      [] wd = "Use" -> "use" [] wd = "Bellman-Ford" -> "bellman-ford"
      [] wd = "A" -> "a" [] wd = "B" -> "b" [] wd = "C" -> "c"
      [] wd = "D" -> "d" [] wd = "E" -> "e" [] wd = "F" -> "f"
      [] wd = "Z" -> "z" [] wd = "T" -> "t"
      [] OTHER -> wd
Lower(msg) == [i \in 1..Len(msg) |-> LowerWord(msg[i])]

(* A value no dict or set lookup accepts (a list, say): hashing it raises   *)
(* TypeError.  A timeout that is not a number: comparing with it raises.   *)
Unhashable == "[]"
BadTimeout == <<-1>>

-----------------------------------------------------------------------------
(* claude-sonnet-4.5 src/validation.py *)

MaxNodesDefault == 10000
MaxEdgesDefault == 100000
GraphValidator == [max_edges |-> MaxEdgesDefault, max_nodes |-> MaxNodesDefault]

ValidationError(field, message, code) ==
    [code |-> code, field |-> field, message |-> message]

TooLargeMsg(n, what, limit) ==
    <<"Graph", "has", ToString(n), what, ",", "exceeds", "limit", "of",
      ToString(limit)>>
CycleMsg ==
    <<"Graph", "contains", "negative", "weight", "cycle", ";", "shortest",
      "path", "is", "undefined">>
(* Faulty variant: the message does not say which node *)
NotFoundMsgNameless(role, n) == <<role, "node", "not", "found", "in", "graph">>

NotFoundMsg(role, n) == <<role, "node", "'", n, "'", "not", "found", "in", "graph">>

(* validate_graph: the errors, in the order the checks add them; g is the   *)
(* graph after get_metadata().                                             *)
validate_graph(v, g) ==
    LET m == g.metadata
    IN  (IF m.node_count > v.max_nodes
         THEN <<ValidationError("graph", TooLargeMsg(m.node_count, "nodes", v.max_nodes),
                                "GRAPH_TOO_LARGE")>> ELSE <<>>)
     \o (IF m.edge_count > v.max_edges
         THEN <<ValidationError("graph", TooLargeMsg(m.edge_count, "edges", v.max_edges),
                                "GRAPH_TOO_LARGE")>> ELSE <<>>)
     \o (IF m.node_count = 0
         THEN <<ValidationError("graph", <<"Graph", "has", "no", "nodes">>,
                                "EMPTY_GRAPH")>> ELSE <<>>)
     \o (IF m.has_negative_cycle
         THEN <<ValidationError("graph", CycleMsg, "NEGATIVE_CYCLE")>> ELSE <<>>)

(* validate_route_request: [raised, is_valid, errors].  raised names the    *)
(* exception that leaves the validator (graph.has_node of a key that       *)
(* cannot be hashed), None when it returns.                                *)
validate_route_request(v, g, start, goal) ==
    LET ge == validate_graph(v, g)
    IN  IF ge # <<>> THEN [errors |-> ge, is_valid |-> FALSE, raised |-> None]
        ELSE IF start = Unhashable \/ goal = Unhashable
        THEN [errors |-> <<>>, is_valid |-> FALSE, raised |-> Some("TypeError")]
        ELSE LET es ==
                 (IF ~has_node(g.adj, start)
                  THEN <<ValidationError("start", NotFoundMsg("Start", start),
                                         "NODE_NOT_FOUND")>> ELSE <<>>)
              \o (IF ~has_node(g.adj, goal)
                  THEN <<ValidationError("goal", NotFoundMsg("Goal", goal),
                                         "NODE_NOT_FOUND")>> ELSE <<>>)
             IN  [errors |-> es, is_valid |-> es = <<>>, raised |-> None]

-----------------------------------------------------------------------------
(* claude-sonnet-4.5 src/routing.py: AlgorithmSelector *)

(* Faulty variant: Dijkstra whatever the graph reports *)
select_dijkstra(g) == "dijkstra"

select_algorithm(g) ==
    IF g.metadata.has_negative_weights THEN "bellman_ford" ELSE "dijkstra"

(* A budget that is no number makes the first timeout check raise           *)
(* TypeError; Bellman-Ford reaches a check only if it makes a pass.        *)
compute_route(g, start, goal, budget) ==
    LET name == select_algorithm(g)
    IN  IF name = "bellman_ford"
        THEN IF budget = BadTimeout /\ Len(g.adj) > 1
             THEN Raised("TypeError", name, <<>>, 1, 0)
             ELSE BellmanFordAlgorithm(g, start, goal,
                                       IF budget = BadTimeout THEN None ELSE budget)
        ELSE IF budget = BadTimeout
             THEN Raised("TypeError", name, <<>>, 1, 0)
             ELSE DijkstraAlgorithm(g, start, goal, budget)

-----------------------------------------------------------------------------
(* claude-sonnet-4.5 src/service.py: RoutingService *)

RouteRequest(id, start, goal, budget) ==
    [budget |-> budget, goal |-> goal, id |-> id, start |-> start]

RouteResponse(id, status, path, cost, metadata, error) ==
    [cost |-> cost, error |-> error, metadata |-> metadata, path |-> path,
     request_id |-> id, status |-> status]

(* "; ".join(f"{e.field}: {e.message}" for e in errors) *)
RECURSIVE JoinErrors(_, _)
JoinErrors(errors, k) ==
    IF k = 0 THEN <<>>
    ELSE (IF k = 1 THEN <<>> ELSE JoinErrors(errors, k - 1) \o <<";">>)
         \o <<errors[k].field, ":">> \o errors[k].message

(* Faulty variant: the NEGATIVE_CYCLE code is not looked for *)
validation_status_plain(errors) == "VALIDATION_ERROR"

validation_status(errors) ==
    IF \E i \in 1..Len(errors) : errors[i].code = "NEGATIVE_CYCLE"
    THEN "NEGATIVE_CYCLE" ELSE "VALIDATION_ERROR"

handle_validation_error(id, errors) ==
    RouteResponse(id, validation_status(errors), None, None,
                  [validation_errors |-> errors],
                  Some(JoinErrors(errors, Len(errors))))

(* Faulty variant: the message is not looked at *)
classify_plain(msg) == "VALIDATION_ERROR"

(* except ValueError: the status by the text of the message *)
classify(msg) ==
    IF Contains(msg, <<"No", "path", "found">>) THEN "NO_PATH"
    ELSE IF Contains(Lower(msg), <<"negative", "cycle">>) THEN "NEGATIVE_CYCLE"
    ELSE "VALIDATION_ERROR"

(* Faulty variant: the cache is never consulted *)
cache_miss_always(c, id) == FALSE

(* if request_id in self._cache *)
cache_hit(c, id) == id \in DOMAIN c

(* Faulty variant: every response is stored under the one key "r1" *)
cache_put_one_key(c, id, resp) == ("r1" :> resp) @@ c

(* self._cache[request_id] = response *)
cache_put(c, id, resp) == (id :> resp) @@ c

(* What one pass through route() after a cache miss does: resp the response *)
(* built (None when an exception leaves route), raised the class of that   *)
(* exception, graph the request's graph afterwards, events the log events, *)
(* validations the validator runs, selected the algorithm chosen, out the  *)
(* outcome of the algorithm run (kind "none" when none ran).               *)
NoRun == [algo |-> "", checks |-> 0, cost |-> 0, kind |-> "none", msg |-> <<>>,
          path |-> <<>>, work |-> 0]

(* try: compute_route(...) except TimeoutError / except ValueError: the     *)
(* response by the outcome of the algorithm, and the cache store after it  *)
route_computed(base, req, out) ==
    LET sel == <<"validation_passed", "algorithm_selected", "computation_started">>
        ran == [base EXCEPT !.selected = Some(select_algorithm(base.graph)),
                            !.out = out]
    IN  IF out.kind = "ok" THEN
            [ran EXCEPT
                !.resp = Some(RouteResponse(req.id, "SUCCESS", Some(out.path),
                                  Some(out.cost),
                                  [algorithm_used |-> out.algo,
                                   path_length |-> Len(out.path)], None)),
                !.events = @ \o sel \o <<"computation_completed", "response_sent">>]
        ELSE IF out.kind = "TimeoutError" THEN
            [ran EXCEPT
                !.resp = Some(RouteResponse(req.id, "TIMEOUT", None, None,
                                  [timeout_requested |-> TRUE], Some(out.msg))),
                !.events = @ \o sel \o <<"computation_timeout", "response_sent">>]
        ELSE IF out.kind = "ValueError" THEN
            [ran EXCEPT
                !.resp = Some(RouteResponse(req.id, classify(out.msg), None, None,
                                  [computed |-> TRUE], Some(out.msg))),
                !.events = @ \o sel \o <<"computation_failed", "response_sent">>]
        ELSE [ran EXCEPT !.raised = Some(out.kind), !.events = @ \o sel]

route_validated(base, req, v) ==
    IF v.raised # None THEN [base EXCEPT !.raised = v.raised]
    ELSE IF ~v.is_valid THEN
        [base EXCEPT !.resp = Some(handle_validation_error(req.id, v.errors)),
                     !.events = @ \o <<"validation_failed">>]
    ELSE The({route_computed(base, req, out) :
                 out \in {compute_route(base.graph, req.start, req.goal,
                                        req.budget)}})

route_miss(g, req) ==
    The({The({route_validated(
                  [events |-> <<"request_received", "validation_started">>,
                   graph |-> g1, out |-> NoRun, raised |-> None, resp |-> None,
                   selected |-> None, validations |-> 1],
                  req, v) :
              v \in {validate_route_request(GraphValidator, g1, req.start,
                                            req.goal)}}) :
         g1 \in {get_metadata(g)}})

(* route(request): the whole call, on cache c and the request's graph g *)
route(c, g, req) ==
    IF cache_hit(c, req.id)
    THEN [cache |-> c, events |-> <<"request_received", "cache_hit">>,
          graph |-> g, hit |-> TRUE, out |-> NoRun, raised |-> None,
          resp |-> Some(c[req.id]), selected |-> None, validations |-> 0]
    ELSE The({[cache |-> IF r.resp = None THEN c
                         ELSE cache_put(c, req.id, r.resp[1]),
               events |-> r.events, graph |-> r.graph, hit |-> FALSE,
               out |-> r.out, raised |-> r.raised, resp |-> r.resp,
               selected |-> r.selected, validations |-> r.validations] :
              r \in {route_miss(g, req)}})

-----------------------------------------------------------------------------
(* routing_v2 src/routing_v2/validation.py and algorithms.py: AutoSelectRouter *)

StartMissingMsg2(n) == <<"Start", "node", "'", n, "'", "not", "in", "graph">>
GoalMissingMsg2(n) == <<"Goal", "node", "'", n, "'", "not", "in", "graph">>
SameNodeMsg2(n) == <<"Start", "and", "goal", "must", "differ", "(", "both", "=",
                     "'", n, "'", ")">>
UnhashableMsg == <<"unhashable", "type", ":", "'", "list", "'">>

(* Faulty variant: start == goal is let through to the algorithm *)
validate_without_same_node_rule(g, start, goal) ==
    IF start = Unhashable THEN Raised("TypeError", "validator", UnhashableMsg, 0, 0)
    ELSE IF ~has_node(g.adj, start)
    THEN Raised("ValidationError", "validator", StartMissingMsg2(start), 0, 0)
    ELSE IF goal = Unhashable THEN Raised("TypeError", "validator", UnhashableMsg, 0, 0)
    ELSE IF ~has_node(g.adj, goal)
    THEN Raised("ValidationError", "validator", GoalMissingMsg2(goal), 0, 0)
    ELSE Returned("validator", <<>>, 0, 0, 0)

(* RouteValidator.validate_route_request(graph, start, goal, False):       *)
(* returns (kind "ok") or raises; x not in set(...) hashes x.              *)
validate_route_request2(g, start, goal) ==
    IF start = Unhashable THEN Raised("TypeError", "validator", UnhashableMsg, 0, 0)
    ELSE IF ~has_node(g.adj, start)
    THEN Raised("ValidationError", "validator", StartMissingMsg2(start), 0, 0)
    ELSE IF goal = Unhashable THEN Raised("TypeError", "validator", UnhashableMsg, 0, 0)
    ELSE IF ~has_node(g.adj, goal)
    THEN Raised("ValidationError", "validator", GoalMissingMsg2(goal), 0, 0)
    ELSE IF start = goal
    THEN Raised("ValidationError", "validator", SameNodeMsg2(start), 0, 0)
    ELSE Returned("validator", <<>>, 0, 0, 0)

(* Faulty variant: the selector always takes Dijkstra *)
AutoSelectDijkstra(g, start, goal) == DijkstraRouter(g, start, goal)

AutoSelectRouter(g, start, goal) ==
    IF has_negative_weights2(g) THEN BellmanFordRouter(g, start, goal)
    ELSE DijkstraRouter(g, start, goal)

(* A RouteAlgorithm supplied by the caller whose compute_shortest_path      *)
(* raises an exception that is neither ValidationError nor ValueError      *)
InjectedMsg == <<"injected", "failure">>
FailingRouter(g, start, goal) ==
    Raised("RuntimeError", "Failing", InjectedMsg, 0, 1)

(* The router as it behaves in the pass after `attempt` passes: "FailsOnce" *)
(* is a caller's router that raises as FailingRouter in the first pass and *)
(* computes as AutoSelectRouter afterwards.                                *)
RouterAt(algorithm, attempt) ==
    IF algorithm = "FailsOnce"
    THEN (IF attempt = 0 THEN "Failing" ELSE "AutoSelect")
    ELSE algorithm

(* self.algorithm.compute_shortest_path, by the router the service holds *)
compute_shortest_path(algorithm, g, start, goal) ==
    CASE algorithm = "Dijkstra" -> DijkstraRouter(g, start, goal)
      [] algorithm = "Bellman-Ford" -> BellmanFordRouter(g, start, goal)
      [] algorithm = "Failing" -> FailingRouter(g, start, goal)
      [] OTHER -> AutoSelectRouter(g, start, goal)

-----------------------------------------------------------------------------
(* routing_v2 src/routing_v2/service.py: RoutingService *)

RetryConfig(n) == [max_attempts |-> n]
Service2(algorithm, n) == [algorithm |-> algorithm, retry_config |-> RetryConfig(n)]

RouteResponse2(id, status, path, cost, error_message, algorithm_used, attempt) ==
    [algorithm_used |-> algorithm_used, attempt_count |-> attempt,
     cost |-> cost, error_message |-> error_message, path |-> path,
     request_id |-> id, status |-> status]

(* Faulty variant: every ValueError is taken for a missing path *)
classify2_not_found(msg) == "NOT_FOUND"

(* except ValueError: the status by the text of the message *)
classify2(msg) ==
    IF Contains(msg, <<"No", "path">>) THEN "NOT_FOUND" ELSE "ALGORITHM_ERROR"

(* Faulty variant: the last error is left out of the message *)
FailedAfterMsgPlain(attempt, last_error) ==
    <<"Failed", "after", ToString(attempt), "attempts", ".">>

FailedAfterMsg(attempt, last_error) ==
    <<"Failed", "after", ToString(attempt), "attempts", ".", "Last", "error", ":">>
    \o (IF last_error = None THEN <<"None">> ELSE last_error[1])

(* One pass of the try block: the validator, then the algorithm *)
attempt2(svc, g, req) ==
    The({IF v.kind # "ok" THEN v
         ELSE compute_shortest_path(svc.algorithm, g, req.start, req.goal) :
         v \in {validate_route_request2(g, req.start, req.goal)}})

(* while attempt < max_attempts: ... ; an exception that is neither          *)
(* ValidationError nor ValueError goes round the loop again, with or       *)
(* without allow_retry (which only decides whether the call sleeps).       *)
(* runs counts the passes in which the algorithm was reached.              *)
RECURSIVE attempts2(_, _, _, _, _, _, _)

(* Faulty variant: a pass that ends in ValidationError or ValueError is     *)
(* followed by another pass, as one that ends in any other exception       *)
attempts2_retrying(svc, g, req, allow_retry, attempt, last_error, runs) ==
    IF attempt >= svc.retry_config.max_attempts THEN
        [counter |-> "error", out |-> NoRun,
         resp |-> RouteResponse2(req.id, "FAILURE", None, None,
                                 Some(FailedAfterMsg(attempt, last_error)),
                                 None, attempt),
         runs |-> runs, validations |-> attempt]
    ELSE
        The({
        IF out.kind = "ok" THEN
            [counter |-> "success", out |-> out,
             resp |-> RouteResponse2(req.id, "SUCCESS", Some(out.path),
                                     Some(out.cost), None, Some(svc.algorithm),
                                     attempt + 1),
             runs |-> runs + 1, validations |-> attempt + 1]
        ELSE attempts2(svc, g, req, allow_retry, attempt + 1, Some(out.msg),
                       IF out.algo = "validator" THEN runs ELSE runs + 1)
        : out \in {attempt2([svc EXCEPT !.algorithm = RouterAt(@, attempt)],
                             g, req)}})

attempts2(svc, g, req, allow_retry, attempt, last_error, runs) ==
    IF attempt >= svc.retry_config.max_attempts THEN
        [counter |-> "error", out |-> NoRun,
         resp |-> RouteResponse2(req.id, "FAILURE", None, None,
                                 Some(FailedAfterMsg(attempt, last_error)),
                                 None, attempt),
         runs |-> runs, validations |-> attempt]
    ELSE
        The({
        LET n == attempt + 1
            ran == IF out.algo = "validator" THEN runs ELSE runs + 1
            done(resp, counter) ==
                [counter |-> counter, out |-> out, resp |-> resp, runs |-> ran,
                 validations |-> n]
        IN  IF out.kind = "ok" THEN
                done(RouteResponse2(req.id, "SUCCESS", Some(out.path),
                                    Some(out.cost), None, Some(svc.algorithm), n),
                     "success")
            ELSE IF out.kind = "ValidationError" THEN
                done(RouteResponse2(req.id, "VALIDATION_ERROR", None, None,
                                    Some(out.msg), None, n), "error")
            ELSE IF out.kind = "ValueError" THEN
                done(RouteResponse2(req.id, classify2(out.msg), None, None,
                                    Some(out.msg), None, n), "error")
            ELSE attempts2(svc, g, req, allow_retry, n, Some(out.msg), ran)
        : out \in {attempt2([svc EXCEPT !.algorithm = RouterAt(@, attempt)],
                             g, req)}})

(* if request.request_id in self._response_cache *)
cache_hit2(c, id) == id \in DOMAIN c

bump_nothing(cnt, counter) == cnt

(* self._success_count += 1 or self._error_count += 1 *)
bump(cnt, counter) ==
    IF counter = "success" THEN [cnt EXCEPT !.success_count = @ + 1]
    ELSE [cnt EXCEPT !.error_count = @ + 1]

(* compute_route(request, allow_retry): the whole call *)
compute_route2(c, cnt, svc, g, req, allow_retry) ==
    LET counted == [cnt EXCEPT !.request_count = @ + 1]
    IN  IF cache_hit2(c, req.id)
        THEN [cache |-> c, counters |-> counted, hit |-> TRUE, out |-> NoRun,
              resp |-> c[req.id], runs |-> 0, validations |-> 0]
        ELSE The({[cache |-> cache_put(c, req.id, r.resp),
                   counters |-> bump(counted, r.counter), hit |-> FALSE,
                   out |-> r.out, resp |-> r.resp, runs |-> r.runs,
                   validations |-> r.validations] :
                  r \in {attempts2(svc, g, req, allow_retry, 0, None, 0)}})

(* metrics(): requests_total, requests_success, requests_error, cache_size *)
metrics(c, cnt) ==
    [cache_size |-> Cardinality(DOMAIN c), requests_error |-> cnt.error_count,
     requests_success |-> cnt.success_count,
     requests_total |-> cnt.request_count]

-----------------------------------------------------------------------------
(* Calls of the two orchestrators, one call one step *)

(* service.route(request), the request carrying the graph *)
Route(req) ==
    /\ calls < MaxCalls
    /\ thr = Idle
    /\ \E r \in {route(cache, graph, req)} :
           /\ cache' = r.cache
           /\ graph' = r.graph
           /\ last' = [budget |-> req.budget, events |-> r.events,
                       goal |-> req.goal, hit |-> r.hit, id |-> req.id,
                       op |-> "route", out |-> r.out, raised |-> r.raised,
                       resp |-> r.resp,
                       runs |-> IF r.out.kind = "none" THEN 0 ELSE 1,
                       selected |-> r.selected, start |-> req.start,
                       validations |-> r.validations]
    /\ calls' = calls + 1
    /\ UNCHANGED <<avars, graph2, graph0, adds, cache2, counters, service2, thr>>

(* service.compute_route(request, allow_retry) on the service svc, which is *)
(* the one constructed before (service2) or one constructed for this call  *)
ComputeRoute(svc, req, allow_retry) ==
    /\ calls < MaxCalls
    /\ thr = Idle
    /\ service2' = svc
    /\ \E r \in {compute_route2(cache2, counters, svc, graph2, req, allow_retry)} :
           /\ cache2' = r.cache
           /\ counters' = r.counters
           /\ last' = [allow_retry |-> allow_retry, budget |-> None,
                       events |-> <<>>, goal |-> req.goal,
                       hit |-> r.hit, id |-> req.id, op |-> "compute_route",
                       out |-> r.out, raised |-> None, resp |-> Some(r.resp),
                       runs |-> r.runs, selected |-> None, start |-> req.start,
                       validations |-> r.validations]
    /\ calls' = calls + 1
    /\ UNCHANGED <<avars, gvars, cache, thr>>

Budgets == {None} \cup {Some(k) : k \in 0..MaxTicks}
Services2 == {Service2(a, n) : a \in Algorithms2, n \in 1..MaxAttempts}

(* Nodes a request may name: those of the graph and one that is absent *)
Absent == "Z"
RequestNodes(adj) == NodeSet(adj) \cup {Absent}

-----------------------------------------------------------------------------
(* SpecSvc: a graph is built, then one request is served by a fresh service *)

InitSvc ==
    InitGraphs /\ InitService /\ last = NoCall
    /\ service2 = Service2("AutoSelect", 1)

NextSvc ==
    \/ \E s \in AddNodes, t \in AddNodes, w \in Weights :
          calls = 0 /\ AddEdge(s, t, w)
    \/ \E start \in RequestNodes(graph.adj), goal \in RequestNodes(graph.adj),
          b \in Budgets :
          calls = 0 /\ Route(RouteRequest("r1", start, goal, b))
    \/ \E start \in RequestNodes(graph2.adj), goal \in RequestNodes(graph2.adj),
          svc \in Services2 :
          calls = 0 /\ ComputeRoute(svc, RouteRequest("r1", start, goal, None), TRUE)

SpecSvc == InitSvc /\ [][NextSvc]_vars

-----------------------------------------------------------------------------
(* SpecMal: as SpecSvc on the preset graphs, with requests that may carry a *)
(* start or goal that cannot be hashed or a timeout that is no number      *)

InitMal == InitSvc /\ adds = MaxAdds

NextMal ==
    \/ \E start \in RequestNodes(graph.adj) \cup {Unhashable},
          goal \in RequestNodes(graph.adj) \cup {Unhashable},
          b \in Budgets \cup {BadTimeout} :
          calls = 0 /\ Route(RouteRequest("r1", start, goal, b))
    \/ \E start \in RequestNodes(graph2.adj) \cup {Unhashable},
          goal \in RequestNodes(graph2.adj) \cup {Unhashable},
          svc \in Services2, allow_retry \in BOOLEAN :
          calls = 0 /\ ComputeRoute(svc, RouteRequest("r1", start, goal, None),
                                    allow_retry)

SpecMal == InitMal /\ [][NextMal]_vars

-----------------------------------------------------------------------------
(* SpecRetry: one request on a preset graph, served by a routing_v2        *)
(* service whose router is one of the package or one supplied by the       *)
(* caller that fails; the request may carry a start or goal that cannot    *)
(* be hashed.                                                              *)

InjectedRouters == {"Failing", "FailsOnce"}

(* One more pass than elsewhere, so that a pass can follow the second one *)
MaxAttemptsRetry == MaxAttempts + 1
ServicesRetry ==
    {Service2(a, n) : a \in Algorithms2 \cup InjectedRouters,
                      n \in 1..MaxAttemptsRetry}

InitRetry == InitSvc /\ adds = MaxAdds

NextRetry ==
    \E start \in RequestNodes(graph2.adj) \cup {Unhashable},
       goal \in RequestNodes(graph2.adj) \cup {Unhashable},
       svc \in ServicesRetry, allow_retry \in BOOLEAN :
       calls = 0 /\ ComputeRoute(svc, RouteRequest("r1", start, goal, None),
                                 allow_retry)

SpecRetry == InitRetry /\ [][NextRetry]_vars

-----------------------------------------------------------------------------
(* SpecSeq: one service instance of each package serves a sequence of       *)
(* requests, one after the other, over a preset graph                      *)

Ids == {"r1", "r2"}
SeqGraphs == {ScenarioA, ScenarioB, ScenarioC}
SeqBudgets == {None, Some(0)}

InitSeq ==
    /\ \E es \in SeqGraphs :
          /\ graph = from_edge_list(es, Len(es))
          /\ graph2 = from_edge_list2(es, Len(es))
          /\ graph0 = from_edge_list0(es, Len(es))
    /\ adds = MaxAdds
    /\ InitService /\ last = NoCall
    /\ service2 = Service2("AutoSelect", MaxAttempts)

NextSeq ==
    \/ \E id \in Ids, goal \in RequestNodes(graph.adj), b \in SeqBudgets :
          Route(RouteRequest(id, "A", goal, b))
    \/ \E id \in Ids, goal \in RequestNodes(graph2.adj) :
          ComputeRoute(service2, RouteRequest(id, "A", goal, None), TRUE)

SpecSeq == InitSeq /\ [][NextSeq]_vars

-----------------------------------------------------------------------------
(* SpecConc: two threads call one service instance at the same time.  A     *)
(* call is a sequence of steps, each atomic: the cache lookup, the         *)
(* validation and computation, the cache store; in routing_v2 also the     *)
(* read and the write of each counter increment.                           *)

Threads == {"t1", "t2"}

Thread(op, pc, req) ==
    [counter |-> "", op |-> op, pc |-> pc, raised |-> None, reg |-> 0,
     req |-> req, resp |-> None, runs |-> 0, stored |-> FALSE]

At(t, op, pc) == t \in DOMAIN thr /\ thr[t].op = op /\ thr[t].pc = pc
Goto(t, rec) == (t :> rec) @@ thr

(* A thread enters route(request) or compute_route(request) *)
Begin(t, op, req) ==
    /\ t \notin DOMAIN thr
    /\ calls < MaxCalls
    /\ thr' = Goto(t, Thread(op, IF op = "route" THEN "check" ELSE "count_read", req))
    /\ calls' = calls + 1
    /\ UNCHANGED <<avars, gvars, cache, cache2, counters, service2, last>>

(* route: if request_id in self._cache: return cached_response *)
Check(t) ==
    /\ At(t, "route", "check")
    /\ thr' = Goto(t, IF cache_hit(cache, thr[t].req.id)
                      THEN [thr[t] EXCEPT !.pc = "done",
                                          !.resp = Some(cache[thr[t].req.id])]
                      ELSE [thr[t] EXCEPT !.pc = "compute"])
    /\ UNCHANGED <<avars, gvars, cache, cache2, counters, service2, last, calls>>

(* route: validation, selection and computation, up to the response built *)
Compute(t) ==
    /\ At(t, "route", "compute")
    /\ \E r \in {route_miss(graph, thr[t].req)} :
          /\ graph' = r.graph
          /\ thr' = Goto(t, [thr[t] EXCEPT
                                !.pc = IF r.resp = None THEN "done" ELSE "store",
                                !.resp = r.resp, !.raised = r.raised,
                                !.runs = IF r.out.kind = "none" THEN 0 ELSE 1])
    /\ UNCHANGED <<avars, graph2, graph0, adds, cache, cache2, counters, service2, last,
                   calls>>

(* route: self._cache[request_id] = response; return response *)
Store(t) ==
    /\ At(t, "route", "store")
    /\ cache' = cache_put(cache, thr[t].req.id, thr[t].resp[1])
    /\ thr' = Goto(t, [thr[t] EXCEPT !.pc = "done", !.stored = TRUE])
    /\ UNCHANGED <<avars, gvars, cache2, counters, service2, last, calls>>

(* compute_route: self._request_count += 1, the read *)
CountRead(t) ==
    /\ At(t, "compute_route", "count_read")
    /\ thr' = Goto(t, [thr[t] EXCEPT !.pc = "count_write",
                                     !.reg = counters.request_count])
    /\ UNCHANGED <<avars, gvars, cache, cache2, counters, service2, last, calls>>

(* compute_route: self._request_count += 1, the write *)
CountWrite(t) ==
    /\ At(t, "compute_route", "count_write")
    /\ counters' = [counters EXCEPT !.request_count = thr[t].reg + 1]
    /\ thr' = Goto(t, [thr[t] EXCEPT !.pc = "check"])
    /\ UNCHANGED <<avars, gvars, cache, cache2, service2, last, calls>>

(* compute_route: if request.request_id in self._response_cache: return *)
Check2(t) ==
    /\ At(t, "compute_route", "check")
    /\ thr' = Goto(t, IF cache_hit2(cache2, thr[t].req.id)
                      THEN [thr[t] EXCEPT !.pc = "done",
                                          !.resp = Some(cache2[thr[t].req.id])]
                      ELSE [thr[t] EXCEPT !.pc = "compute"])
    /\ UNCHANGED <<avars, gvars, cache, cache2, counters, service2, last, calls>>

(* compute_route: the attempt loop, up to the response built *)
Compute2(t) ==
    /\ At(t, "compute_route", "compute")
    /\ \E r \in {attempts2(service2, graph2, thr[t].req, TRUE, 0, None, 0)} :
          thr' = Goto(t, [thr[t] EXCEPT !.pc = "store", !.resp = Some(r.resp),
                                        !.runs = r.runs, !.counter = r.counter])
    /\ UNCHANGED <<avars, gvars, cache, cache2, counters, service2, last, calls>>

(* compute_route: self._response_cache[request.request_id] = response *)
Store2(t) ==
    /\ At(t, "compute_route", "store")
    /\ cache2' = cache_put(cache2, thr[t].req.id, thr[t].resp[1])
    /\ thr' = Goto(t, [thr[t] EXCEPT !.pc = "bump_read", !.stored = TRUE])
    /\ UNCHANGED <<avars, gvars, cache, counters, service2, last, calls>>

(* compute_route: self._success_count += 1 or self._error_count += 1, read *)
BumpRead(t) ==
    /\ At(t, "compute_route", "bump_read")
    /\ thr' = Goto(t, [thr[t] EXCEPT
                          !.pc = "bump_write",
                          !.reg = IF thr[t].counter = "success"
                                  THEN counters.success_count
                                  ELSE counters.error_count])
    /\ UNCHANGED <<avars, gvars, cache, cache2, counters, service2, last, calls>>

(* compute_route: the write of that increment; return response *)
BumpWrite(t) ==
    /\ At(t, "compute_route", "bump_write")
    /\ counters' = IF thr[t].counter = "success"
                   THEN [counters EXCEPT !.success_count = thr[t].reg + 1]
                   ELSE [counters EXCEPT !.error_count = thr[t].reg + 1]
    /\ thr' = Goto(t, [thr[t] EXCEPT !.pc = "done"])
    /\ UNCHANGED <<avars, gvars, cache, cache2, service2, last, calls>>

InitConc == InitSeq

NextConc ==
    \/ \E t \in Threads, id \in Ids, goal \in {"B", Absent}, b \in SeqBudgets :
          Begin(t, "route", RouteRequest(id, "A", goal, b))
    \/ \E t \in Threads, id \in Ids, goal \in {"B", Absent} :
          Begin(t, "compute_route", RouteRequest(id, "A", goal, None))
    \/ \E t \in Threads : Check(t)
    \/ \E t \in Threads : Compute(t)
    \/ \E t \in Threads : Store(t)
    \/ \E t \in Threads : CountRead(t)
    \/ \E t \in Threads : CountWrite(t)
    \/ \E t \in Threads : Check2(t)
    \/ \E t \in Threads : Compute2(t)
    \/ \E t \in Threads : Store2(t)
    \/ \E t \in Threads : BumpRead(t)
    \/ \E t \in Threads : BumpWrite(t)

SpecConc == InitConc /\ [][NextConc]_vars

-----------------------------------------------------------------------------
(* SpecGraph: a graph is edited by add_edge calls, from empty or from a     *)
(* preset graph, and its metadata is read at any moment in between         *)

(* graph.get_metadata() *)
GetMetadata ==
    /\ graph' = get_metadata(graph)
    /\ UNCHANGED <<avars, graph2, graph0, adds, svars, last>>

InitGraph ==
    /\ \/ /\ graph = NewGraph /\ graph2 = NewGraph2 /\ graph0 = EmptyAdj
          /\ adds = 0
       \/ \E es \in EdgeLists :
             /\ graph = from_edge_list(es, Len(es))
             /\ graph2 = from_edge_list2(es, Len(es))
             /\ graph0 = from_edge_list0(es, Len(es))
             /\ adds = MaxAdds - 1
    /\ InitService /\ last = NoCall
    /\ service2 = Service2("AutoSelect", 1)

NextGraph ==
    \/ \E s \in AddNodes, t \in AddNodes, w \in Weights : AddEdge(s, t, w)
    \/ GetMetadata

SpecGraph == InitGraph /\ [][NextGraph]_vars

-----------------------------------------------------------------------------
(* SpecAlias: a graph is built, then a caller takes neighbors(node) from    *)
(* one of the three Graph classes and writes to the mapping it was given   *)

(* d.pop(target, None) on the mapping a caller holds *)
DictDel(nbrs, t) == SelectSeq(nbrs, LAMBDA e : e.to # t)

(* self._adj.get(node, {}): the inner dict itself when the node is a key,   *)
(* a new empty dict otherwise (claude-sonnet-4.5 and logistics)            *)
neighbors(adj, node) ==
    [aliased |-> has_node(adj, node), mapping |-> AdjGet(adj, node)]

(* self._adj.get(node, {}).copy(): always a new dict (routing_v2) *)
neighbors2(adj, node) == [aliased |-> FALSE, mapping |-> AdjGet(adj, node)]

(* The adjacency after the caller has changed the mapping r into d: the     *)
(* change is one to _adj[node] when r is that dict                         *)
WriteThrough(adj, node, r, d) ==
    IF r.aliased THEN [adj EXCEPT ![IndexOf(adj, node)].nbrs = d] ELSE adj

(* The caller's statement: d[t] = w, or d.pop(t, None) *)
CallerWrites(d, t, w, del) == IF del THEN DictDel(d, t) ELSE DictSet(d, t, w)

NeighborsCall(cls, adj, node, r) ==
    [graph |-> adj, kind |-> cls, node |-> node, op |-> "neighbors",
     out |-> r.mapping]

NeighborsSonnet(node, t, w, del) ==
    /\ last.op = "none"
    /\ \E r \in {neighbors(graph.adj, node)} :
           /\ graph' = [graph EXCEPT !.adj =
                  WriteThrough(@, node, r, CallerWrites(r.mapping, t, w, del))]
           /\ last' = NeighborsCall("sonnet", graph.adj, node, r)
    /\ UNCHANGED <<avars, graph2, graph0, adds, svars>>

NeighborsV2(node, t, w, del) ==
    /\ last.op = "none"
    /\ \E r \in {neighbors2(graph2.adj, node)} :
           /\ graph2' = [graph2 EXCEPT !.adj =
                  WriteThrough(@, node, r, CallerWrites(r.mapping, t, w, del))]
           /\ last' = NeighborsCall("v2", graph2.adj, node, r)
    /\ UNCHANGED <<avars, graph, graph0, adds, svars>>

NeighborsLogistics(node, t, w, del) ==
    /\ last.op = "none"
    /\ \E r \in {neighbors(graph0, node)} :
           /\ graph0' = WriteThrough(graph0, node, r,
                                     CallerWrites(r.mapping, t, w, del))
           /\ last' = NeighborsCall("logistics", graph0, node, r)
    /\ UNCHANGED <<avars, graph, graph2, adds, svars>>

(* Keys the caller writes: one that may be in the mapping, one that is not *)
WrittenKeys == {"B", Absent}

NextAlias ==
    \/ \E s \in AddNodes, t \in AddNodes, w \in Weights :
          last.op = "none" /\ AddEdge(s, t, w)
    \/ \E node \in RequestNodes(graph.adj), t \in WrittenKeys, w \in Weights,
          del \in BOOLEAN : NeighborsSonnet(node, t, w, del)
    \/ \E node \in RequestNodes(graph2.adj), t \in WrittenKeys, w \in Weights,
          del \in BOOLEAN : NeighborsV2(node, t, w, del)
    \/ \E node \in RequestNodes(graph0), t \in WrittenKeys, w \in Weights,
          del \in BOOLEAN : NeighborsLogistics(node, t, w, del)

SpecAlias == InitGraph /\ [][NextAlias]_vars

-----------------------------------------------------------------------------
(* SpecRound: a routing_v2 graph is built from a list of edges, serialised  *)
(* with to_dict, and a second graph is built from the serialised edges     *)

node_count2(g) == Len(g.adj)
edge_count2(g) == g.edge_count

(* Graph.to_dict(): the list of edges as dicts and the derived metadata *)
to_dict(g) ==
    [edge_count |-> edge_count2(g),
     edges |-> [k \in 1..Len(edges(g.adj)) |->
                  [source |-> edges(g.adj)[k].src,
                   target |-> edges(g.adj)[k].dst,
                   weight |-> edges(g.adj)[k].w]],
     has_negative_weights |-> has_negative_weights2(g),
     node_count |-> node_count2(g)]

(* (e["source"], e["target"], e["weight"]) for e in data["edges"] *)
EdgeTuples(data) ==
    [k \in 1..Len(data.edges) |->
        <<data.edges[k].source, data.edges[k].target, data.edges[k].weight>>]

RoundTrip ==
    /\ last.op = "none"
    /\ \E d \in {to_dict(graph2)} :
           last' = [graph |-> graph2, op |-> "to_dict", out |-> d,
                    resp |-> from_edge_list2(EdgeTuples(d), Len(d.edges))]
    /\ UNCHANGED <<avars, gvars, svars>>

NextRound ==
    \/ \E s \in AddNodes, t \in AddNodes, w \in Weights :
          last.op = "none" /\ AddEdge(s, t, w)
    \/ RoundTrip

SpecRound == InitGraph /\ [][NextRound]_vars

-----------------------------------------------------------------------------
(* SpecDijkstra: one Dijkstra run of each package, one turn of its while   *)
(* loop a step.  The locals of the run are those of thread "t1"; relaxed   *)
(* lists the nodes whose neighbor loop has been entered, in order.         *)

ZeroWeights == <<<<"A", "B", 0>>, <<"B", "C", 0>>, <<"A", "C", 1>>,
                 <<"C", "D", 0>>>>

DijkstraGraphs == EdgeLists \cup {ZeroWeights}

RunAdj(cls) ==
    CASE cls = "sonnet" -> graph.adj
      [] cls = "v2" -> graph2.adj
      [] OTHER -> graph0

(* The precondition checks made before the search starts: none in          *)
(* claude-sonnet-4.5, has_negative_weights() in routing_v2, the scan of    *)
(* all edges in logistics                                                  *)
DijkstraRefuses(cls) ==
    CASE cls = "sonnet" -> FALSE
      [] cls = "v2" -> has_negative_weights2(graph2)
      [] OTHER -> \E k \in 1..Len(edges(graph0)) : edges(graph0)[k].w < 0

(* One turn of "while heap:" with a non-empty heap: the locals after it,   *)
(* the entry popped, whether the run returned and whether the turn reached *)
(* the neighbor loop.  stale_check is the "if cost > dist.get(node)" test  *)
(* of claude-sonnet-4.5 and routing_v2, skip_visited the "if neighbor in   *)
(* visited" test of routing_v2.                                            *)
DijkstraTurn(adj, goal, st, stale_check, skip_visited) ==
    The({
        IF top[2] \in st.visited
        THEN [cost |-> top[1], node |-> top[2], relaxed |-> FALSE,
              returned |-> FALSE,
              st |-> [st EXCEPT !.heap = @ \ {top}, !.work = @ + 1]]
        ELSE IF top[2] = goal
        THEN [cost |-> top[1], node |-> top[2], relaxed |-> FALSE,
              returned |-> TRUE,
              st |-> [st EXCEPT !.heap = @ \ {top}, !.work = @ + 1,
                                !.visited = @ \cup {top[2]}]]
        ELSE IF stale_check /\ top[1] > DGet(st.dist, top[2])
        THEN [cost |-> top[1], node |-> top[2], relaxed |-> FALSE,
              returned |-> FALSE,
              st |-> [st EXCEPT !.heap = @ \ {top}, !.work = @ + 1,
                                !.visited = @ \cup {top[2]}]]
        ELSE [cost |-> top[1], node |-> top[2], relaxed |-> TRUE,
              returned |-> FALSE,
              st |-> RelaxNeighbors(
                         [st EXCEPT !.heap = @ \ {top}, !.work = @ + 1,
                                    !.visited = @ \cup {top[2]}],
                         top[2], top[1], AdjGet(adj, top[2]), 1, skip_visited)]
        : top \in {heappop(st.heap)}})

DijkstraRun(cls, start, goal) ==
    [goal |-> goal, kind |-> cls, op |-> "dijkstra",
     pc |-> IF DijkstraRefuses(cls) THEN "done" ELSE "loop",
     relaxed |-> <<>>, st |-> FreshSearch(start), start |-> start]

(* The call, up to the first test of "while heap:" *)
DijkstraStart(cls, start, goal) ==
    /\ thr = Idle
    /\ thr' = Goto("t1", DijkstraRun(cls, start, goal))
    /\ last' = [before |-> DijkstraRun(cls, start, goal), op |-> "start"]
    /\ UNCHANGED <<avars, gvars, cache, cache2, counters, service2, calls>>

(* One turn of the loop *)
DijkstraPop ==
    /\ At("t1", "dijkstra", "loop")
    /\ thr["t1"].st.heap # {}
    /\ \E r \in {DijkstraTurn(RunAdj(thr["t1"].kind), thr["t1"].goal,
                              thr["t1"].st, thr["t1"].kind # "logistics",
                              thr["t1"].kind = "v2")} :
          /\ thr' = Goto("t1", [thr["t1"] EXCEPT
                                  !.pc = IF r.returned THEN "done" ELSE "loop",
                                  !.relaxed = IF r.relaxed
                                              THEN Append(@, r.node) ELSE @,
                                  !.st = r.st])
          /\ last' = [before |-> thr["t1"], cost |-> r.cost, node |-> r.node,
                      op |-> "heappop"]
    /\ UNCHANGED <<avars, gvars, cache, cache2, counters, service2, calls>>

(* "while heap:" finds the heap empty: the run raises "No path" *)
DijkstraExit ==
    /\ At("t1", "dijkstra", "loop")
    /\ thr["t1"].st.heap = {}
    /\ thr' = Goto("t1", [thr["t1"] EXCEPT !.pc = "done"])
    /\ last' = [before |-> thr["t1"], op |-> "raise"]
    /\ UNCHANGED <<avars, gvars, cache, cache2, counters, service2, calls>>

InitDijkstra ==
    /\ \E es \in DijkstraGraphs :
          /\ graph = from_edge_list(es, Len(es))
          /\ graph2 = from_edge_list2(es, Len(es))
          /\ graph0 = from_edge_list0(es, Len(es))
    /\ adds = MaxAdds
    /\ InitService /\ last = NoCall
    /\ service2 = Service2("AutoSelect", 1)

NextDijkstra ==
    \/ \E cls \in {"sonnet", "v2", "logistics"},
          start \in RequestNodes(graph.adj), goal \in RequestNodes(graph.adj) :
          DijkstraStart(cls, start, goal)
    \/ DijkstraPop
    \/ DijkstraExit

SpecDijkstra == InitDijkstra /\ [][NextDijkstra]_vars

-----------------------------------------------------------------------------
(* SpecAppt: one appointment_v2 AppointmentService, called sequentially    *)

MaxClock == 3           \* last clock reading from which time still passes

Payloads == {[owner |-> "Alice", title |-> "appt-1"]}
IdempotencyKeys == {None, Some(""), Some("k1"), Some("k2")}
RetryCounts == {0, 1}
Backoffs == {0, 1}
Calendars ==
    {CalendarMock("success", 0), CalendarMock("permanent", 0)}
    \cup {CalendarMock("transient", f) : f \in {1, 2, 10}}

CreateAppointment(payload, key, max_retries, backoff) ==
    /\ calls < MaxCalls
    /\ \E r \in {create_appointment(World(appointments, calendar, now, uuids),
                                    payload, key, max_retries, backoff)} :
          /\ appointments' = r.world.appointments
          /\ calendar' = r.world.calendar
          /\ now' = r.world.now
          /\ uuids' = r.world.uuids
          /\ last' = [before |-> World(appointments, calendar, now, uuids),
                      calendar_calls |-> r.calendar_calls, key |-> key,
                      max_retries |-> max_retries,
                      op |-> "create_appointment",
                      open_calls |-> r.open_calls, out |-> r.out,
                      payload |-> payload]
    /\ calls' = calls + 1
    /\ UNCHANGED <<gvars, cache, cache2, counters, service2, thr, STORE,
                   CIRCUIT>>

FlushOutbox(raises) ==
    /\ calls < MaxCalls
    /\ \E r \in {flush_outbox(appointments, raises)} :
          /\ appointments' = r.svc
          /\ last' = [before |-> World(appointments, calendar, now, uuids),
                      op |-> "flush_outbox", out |-> r.out,
                      raises |-> raises]
    /\ calls' = calls + 1
    /\ UNCHANGED <<gvars, cache, cache2, counters, service2, thr, calendar,
                   now, uuids, STORE, CIRCUIT>>

(* Time passes between two calls *)
Tick ==
    /\ now < MaxClock
    /\ now' = now + 1
    /\ UNCHANGED <<gvars, svars, last, calendar, appointments, uuids, STORE,
                   CIRCUIT>>

InitAppt ==
    /\ graph = NewGraph /\ graph2 = NewGraph2 /\ graph0 = EmptyAdj /\ adds = 0
    /\ cache = <<>> /\ cache2 = <<>>
    /\ counters = [error_count |-> 0, request_count |-> 0, success_count |-> 0]
    /\ service2 = Service2("AutoSelect", 1)
    /\ calls = 0 /\ thr = Idle /\ last = NoCall
    /\ calendar \in Calendars
    /\ appointments = AppointmentService
    /\ now = 0 /\ uuids = 0
    /\ STORE = EmptyStore /\ CIRCUIT = ClosedCircuit

NextAppt ==
    \/ \E payload \in Payloads, key \in IdempotencyKeys,
          max_retries \in RetryCounts, backoff \in Backoffs :
          CreateAppointment(payload, key, max_retries, backoff)
    \/ \E raises \in SUBSET (1..Len(appointments.outbox)) : FlushOutbox(raises)
    \/ Tick

SpecAppt == InitAppt /\ [][NextAppt]_vars

-----------------------------------------------------------------------------------------------------------------------------------------------------------------------------------------------------------------------------
(* SpecCircuit: one caller of post_change_project _call_provider, with the *)
(* clock running.                                                          *)

ProviderNames == {"immediate", "delayed", "flaky", "always_fail", "other"}
ProviderPayloadIds == {"a1", "a2"}

(* How a call at clock reading t meets the circuit *)
CircuitAt(c, t) ==
    IF c.open_until > t THEN "open"
    ELSE IF c.open_until > 0 THEN "window-over" ELSE "never-opened"

(* What the most recent _call_provider did: how it met the circuit,      *)
(* whether it left CIRCUIT the same, and streak, the provider failures   *)
(* in a row up to this call since the circuit last opened or a call last *)
(* succeeded                                                             *)
Streak == IF last.op = "_call_provider" /\ ~last.opened THEN last.streak ELSE 0

Delivered(r) ==
    [invoked |-> r.invoked, met |-> CircuitAt(CIRCUIT, now),
     op |-> "_call_provider",
     opened |-> r.circuit.open_until # CIRCUIT.open_until, out |-> r.out,
     same |-> r.circuit = CIRCUIT,
     streak |-> IF r.out = "ok" THEN 0
                ELSE IF r.invoked THEN Streak + 1 ELSE Streak]

(* _call_provider(name, {'id': id}) *)
CallProvider(name, id) ==
    /\ calls < CIRCUIT_THRESHOLD + MaxCalls
    /\ \E r \in {call_provider(CIRCUIT, now, name, [id |-> id, provider |-> name])} :
          /\ CIRCUIT' = r.circuit
          /\ last' = Delivered(r)
    /\ calls' = calls + 1
    /\ UNCHANGED <<gvars, cache, cache2, counters, service2, thr, calendar,
                   appointments, now, uuids, STORE>>

InitCircuit ==
    /\ graph = NewGraph /\ graph2 = NewGraph2 /\ graph0 = EmptyAdj /\ adds = 0
    /\ InitService /\ last = NoCall
    /\ service2 = Service2("AutoSelect", 1)

NextCircuit ==
    \/ \E name \in ProviderNames, id \in ProviderPayloadIds :
          CallProvider(name, id)
    \/ Tick

SpecCircuit == InitCircuit /\ [][NextCircuit]_vars

-----
(* SpecPost: threads call post_change_project create_appointment at the    *)
(* same time, one call each.  Each block under the module lock is one      *)
(* step, and so is each _call_provider call.                               *)

PostRequestIds == {"q1", "q2"}
PostPayloads ==
    {[id |-> "a1", provider |-> "immediate"],
     [id |-> "a2", provider |-> "always_fail"]}

PostCall(request_id, payload, max_attempts) ==
    [allocated |-> FALSE, attempt |-> 0, failed |-> 0, invoked |-> 0,
     max_attempts |-> max_attempts, op |-> "create_appointment",
     payload |-> payload, pc |-> "allocate", provider_calls |-> 0,
     request_id |-> request_id, resp |-> None]

(* return appointment id, state *)
ReturnPost(t, id, state) ==
    thr' = Goto(t, [thr[t] EXCEPT !.pc = "done",
                                  !.resp = Some([id |-> id, state |-> state])])

(* A thread enters create_appointment(request_id, payload, max_attempts) *)
BeginPost(t, request_id, payload, max_attempts) ==
    /\ t \notin DOMAIN thr
    /\ thr' = Goto(t, PostCall(request_id, payload, max_attempts))
    /\ UNCHANGED <<gvars, cache, cache2, counters, service2, last, calls,
                   calendar, appointments, now, uuids, STORE, CIRCUIT>>

(* "with lock:" the idempotency check and the allocation *)
AllocatePost(t) ==
    /\ At(t, "create_appointment", "allocate")
    /\ IF idempotent_hit(STORE, thr[t].request_id)
       THEN /\ ReturnPost(t, STORE.appointments[thr[t].request_id].id,
                          STORE.appointments[thr[t].request_id].state)
            /\ STORE' = STORE
       ELSE /\ STORE' = allocate(STORE, thr[t].request_id, thr[t].payload)
            /\ thr' = Goto(t, [thr[t] EXCEPT
                                 !.allocated = TRUE,
                                 !.attempt = 1,
                                 !.pc = IF 1 <= thr[t].max_attempts
                                        THEN "deliver" ELSE "compensate"])
    /\ UNCHANGED <<gvars, cache, cache2, counters, service2, last, calls,
                   calendar, appointments, now, uuids, CIRCUIT>>

(* _call_provider(payload['provider'], payload) in the try block *)
DeliverPost(t) ==
    /\ At(t, "create_appointment", "deliver")
    /\ \E r \in {call_provider(CIRCUIT, now, thr[t].payload.provider,
                               thr[t].payload)} :
          /\ CIRCUIT' = r.circuit
          /\ thr' = Goto(t, [thr[t] EXCEPT
                               !.failed = IF r.out = "ok" THEN @ ELSE @ + 1,
                               !.invoked = IF r.invoked THEN @ + 1 ELSE @,
                               !.pc = IF r.out = "ok" THEN "confirm"
                                      ELSE "record",
                               !.provider_calls = @ + 1])
    /\ UNCHANGED <<gvars, cache, cache2, counters, service2, last, calls,
                   calendar, appointments, now, uuids, STORE>>

(* "with lock:" state = 'confirmed', attempts = attempt; return *)
ConfirmPost(t) ==
    /\ At(t, "create_appointment", "confirm")
    /\ STORE' = set_attempts(set_state(STORE, thr[t].request_id, "confirmed"),
                             thr[t].request_id, thr[t].attempt)
    /\ ReturnPost(t, thr[t].payload.id, "confirmed")
    /\ UNCHANGED <<gvars, cache, cache2, counters, service2, last, calls,
                   calendar, appointments, now, uuids, CIRCUIT>>

(* except ProviderError: "with lock:" attempts = attempt; sleep; continue *)
RecordPost(t) ==
    /\ At(t, "create_appointment", "record")
    /\ STORE' = set_attempts(STORE, thr[t].request_id, thr[t].attempt)
    /\ thr' = Goto(t, [thr[t] EXCEPT
                         !.attempt = @ + 1,
                         !.pc = IF thr[t].attempt + 1 <= thr[t].max_attempts
                                THEN "deliver" ELSE "compensate"])
    /\ UNCHANGED <<gvars, cache, cache2, counters, service2, last, calls,
                   calendar, appointments, now, uuids, CIRCUIT>>

(* After the loop: "with lock:" state = 'failed'; return *)
CompensatePost(t) ==
    /\ At(t, "create_appointment", "compensate")
    /\ STORE' = set_state(STORE, thr[t].request_id, "failed")
    /\ ReturnPost(t, thr[t].payload.id, "failed")
    /\ UNCHANGED <<gvars, cache, cache2, counters, service2, last, calls,
                   calendar, appointments, now, uuids, CIRCUIT>>

InitPost ==
    /\ graph = NewGraph /\ graph2 = NewGraph2 /\ graph0 = EmptyAdj /\ adds = 0
    /\ InitService /\ last = NoCall
    /\ service2 = Service2("AutoSelect", 1)

NextPost ==
    \/ \E t \in Threads, request_id \in PostRequestIds, payload \in PostPayloads,
          max_attempts \in 0..MaxAttempts :
          BeginPost(t, request_id, payload, max_attempts)
    \/ \E t \in Threads : AllocatePost(t)
    \/ \E t \in Threads : DeliverPost(t)
    \/ \E t \in Threads : ConfirmPost(t)
    \/ \E t \in Threads : RecordPost(t)
    \/ \E t \in Threads : CompensatePost(t)
    \/ Tick

SpecPost == InitPost /\ [][NextPost]_vars

(* A thread inside create_appointment runs on: the lock is always given   *)
(* back, the sleeps end and the mock providers return.                    *)
StepPost(t) ==
    \/ AllocatePost(t)
    \/ DeliverPost(t)
    \/ ConfirmPost(t)
    \/ RecordPost(t)
    \/ CompensatePost(t)

FairPost == SpecPost /\ \A t \in Threads : WF_vars(StepPost(t))

-----------------------------------------------------------------------------
(* Properties of the algorithms (SpecAlgo) *)

SolvedAdj ==
    CASE last.op = "sonnet" -> graph.adj
      [] last.op = "v2" -> graph2.adj
      [] OTHER -> graph0

(* C6: when no negative cycle is reachable from start and goal is           *)
(* reachable, Bellman-Ford (each implementation) returns a walk of the     *)
(* graph from start to goal whose edge weights sum to the returned cost,   *)
(* and that cost is the minimum over all start-to-goal paths.              *)
C6_BellmanFordShortest ==
    (/\ Solved
     /\ ~NegativeCycleReachable(SolvedAdj, last.start)
     /\ Reachable(SolvedAdj, last.start, last.goal))
    => LET out == last.bellman_ford
       IN  /\ out.kind = "ok"
           /\ IsPath(SolvedAdj, out.path, last.start, last.goal)
           /\ PathCost(SolvedAdj, out.path) = out.cost
           /\ IsMinCost(SolvedAdj, last.start, last.goal, out.cost)

(* Scenario A: A to B is answered A, C, D, F, B with cost 1 *)
C6_ScenarioA ==
    /\ last.op = "v2" /\ last.start = "A" /\ last.goal = "B"
    /\ EdgeSet(graph2.adj) = {[dst |-> e[2], src |-> e[1], w |-> e[3]] :
                                e \in {ScenarioA[i] : i \in 1..Len(ScenarioA)}}
    /\ last.bellman_ford.path = <<"A", "C", "D", "F", "B">>
    /\ last.bellman_ford.cost = 1

(* C7: on a graph with no negative-weight edge, Dijkstra and Bellman-Ford   *)
(* of the claude-sonnet-4.5 and routing_v2 packages either both fail with  *)
(* no-path or both return the same node sequence and the same cost.        *)
C7_SameOutcome ==
    (last.op \in {"sonnet", "v2"} /\ ~HasNegativeEdge(SolvedAdj))
    => \/ IsNoPath(last.dijkstra) /\ IsNoPath(last.bellman_ford)
       \/ /\ last.dijkstra.kind = "ok" /\ last.bellman_ford.kind = "ok"
          /\ last.dijkstra.path = last.bellman_ford.path
          /\ last.dijkstra.cost = last.bellman_ford.cost

(* C8: Bellman-Ford (each implementation, early-stopping or not) fails      *)
(* with the negative-cycle condition exactly when a negative-weight cycle  *)
(* is reachable from start, whether or not goal is reachable.              *)
C8_NegativeCycleIff ==
    Solved => (IsNegativeCycle(last.bellman_ford)
               <=> NegativeCycleReachable(SolvedAdj, last.start))

(* An early-stopping implementation reports the cycle for an unreachable goal *)
C8_CycleGoalUnreachable ==
    /\ last.op = "sonnet"
    /\ IsNegativeCycle(last.bellman_ford)
    /\ ~Reachable(SolvedAdj, last.start, last.goal)

-----------------------------------------------------------------------------
(* Properties of one served request (SpecSvc, SpecMal) *)

Served == last.op \in {"route", "compute_route"}
RequestInGraph(adj) == has_node(adj, last.start) /\ has_node(adj, last.goal)
Unroutable(adj) ==
    /\ RequestInGraph(adj)
    /\ ~Reachable(adj, last.start, last.goal)
    /\ ~NegativeCycleReachable(adj, last.start)

(* C3: every call of route and of compute_route returns a response; no      *)
(* exception of the validator or of the algorithm reaches the caller,      *)
(* malformed requests included.                                            *)
C3_AlwaysResponds ==
    Served => (last.raised = None /\ last.resp # None)

(* C5: the selector takes Bellman-Ford exactly when the graph reports       *)
(* negative weights and Dijkstra otherwise, and the algorithm selected is  *)
(* the one run; so Dijkstra is never run by an auto-selecting service on a *)
(* graph that has a negative-weight edge.                                  *)
C5_AutoSelection ==
    /\ (last.op = "route" /\ last.selected # None)
       => /\ last.selected = Some("bellman_ford")
                <=> graph.metadata.has_negative_weights
          /\ last.selected = Some("dijkstra")
                <=> ~graph.metadata.has_negative_weights
          /\ last.out.algo = last.selected[1]
          /\ last.out.algo = "dijkstra" => ~HasNegativeEdge(graph.adj)
    /\ (last.op = "compute_route" /\ service2.algorithm = "AutoSelect"
        /\ last.runs > 0)
       => /\ last.out.algo = "Bellman-Ford" <=> has_negative_weights2(graph2)
          /\ last.out.algo = "Dijkstra" <=> ~has_negative_weights2(graph2)
          /\ last.out.algo = "Dijkstra" => ~HasNegativeEdge(graph2.adj)

(* Bellman-Ford selected and run on a graph with a negative edge *)
C5_BellmanFordChosen ==
    /\ last.op = "route" /\ last.selected = Some("bellman_ford")
    /\ HasNegativeEdge(graph.adj)
    /\ last.out.algo = "bellman_ford" /\ last.out.kind = "ok"

(* C9 as stated: start and goal in the graph, goal unreachable and no       *)
(* negative cycle reachable from start give the no-path status, no path    *)
(* and no cost, after one attempt.                                         *)
C9_NoPathStatus ==
    /\ (last.op = "route" /\ Unroutable(graph.adj))
       => /\ last.resp[1].status = "NO_PATH"
          /\ last.resp[1].path = None /\ last.resp[1].cost = None
          /\ last.runs = 1
    /\ (last.op = "compute_route" /\ Unroutable(graph2.adj))
       => /\ last.resp[1].status = "NOT_FOUND"
          /\ last.resp[1].path = None /\ last.resp[1].cost = None
          /\ last.resp[1].attempt_count = 1

(* C9: the same, provided that in claude-sonnet-4.5 the graph's             *)
(* negative-cycle flag is not set (validation answers NEGATIVE_CYCLE for   *)
(* a cycle reachable from the first node, wherever start is) and the time  *)
(* budget does not run out (TIMEOUT), and that in routing_v2 the service   *)
(* does not hold the plain Dijkstra router on a graph that reports         *)
(* negative weights (VALIDATION_ERROR).                                    *)
C9_NoPathStatusUnless ==
    /\ (/\ last.op = "route" /\ Unroutable(graph.adj)
        /\ ~graph.metadata.has_negative_cycle
        /\ last.out.kind # "TimeoutError")
       => /\ last.resp[1].status = "NO_PATH"
          /\ last.resp[1].path = None /\ last.resp[1].cost = None
          /\ last.runs = 1
    /\ (/\ last.op = "compute_route" /\ Unroutable(graph2.adj)
        /\ ~(service2.algorithm = "Dijkstra" /\ has_negative_weights2(graph2)))
       => /\ last.resp[1].status = "NOT_FOUND"
          /\ last.resp[1].path = None /\ last.resp[1].cost = None
          /\ last.resp[1].attempt_count = 1

(* NO_PATH from Bellman-Ford, with a budget that did not run out *)
C9_NoPathByBellmanFord ==
    /\ last.op = "route" /\ Unroutable(graph.adj)
    /\ last.out.algo = "bellman_ford" /\ last.budget # None
    /\ last.resp[1].status = "NO_PATH"

(* C10: in claude-sonnet-4.5, when the graph's negative-cycle flag is set   *)
(* a request not answered from the cache gets NEGATIVE_CYCLE with an error *)
(* text that mentions "negative", and no algorithm is selected or run;     *)
(* a validation failure without the NEGATIVE_CYCLE code gets               *)
(* VALIDATION_ERROR.                                                       *)
C10_NegativeCycleRejected ==
    (last.op = "route" /\ ~last.hit)
    => /\ graph.metadata.has_negative_cycle
          => /\ last.resp[1].status = "NEGATIVE_CYCLE"
             /\ last.resp[1].error # None
             /\ InSeq("negative", Lower(last.resp[1].error[1]))
             /\ last.selected = None /\ last.runs = 0
       /\ (/\ InSeq("validation_failed", last.events)
           /\ \A i \in 1..Len(last.resp[1].metadata.validation_errors) :
                 last.resp[1].metadata.validation_errors[i].code # "NEGATIVE_CYCLE")
          => last.resp[1].status = "VALIDATION_ERROR"

(* A flagged graph and a start node that is not in it *)
C10_FlaggedGraphAbsentStart ==
    /\ last.op = "route" /\ graph.metadata.has_negative_cycle
    /\ last.start = Absent
    /\ last.resp[1].status = "NEGATIVE_CYCLE"

-----------------------------------------------------------------------------
(* Properties of the idempotency cache, calls one after the other (SpecSeq) *)

(* The cache a call of the orchestrator looks its request up in *)
CacheOf(op, c, c2) == IF op = "route" THEN c ELSE c2

(* C1: on one service instance, a call whose request identifier already has *)
(* a stored response returns exactly that response, without a validation   *)
(* and without a run of an algorithm, and leaves the cache as it is; the   *)
(* stored response is the one the first call with that identifier          *)
(* returned, since a call that finds no entry stores the response it       *)
(* returns and no call changes an entry that exists.                       *)
C1_SeenIdentifierServedFromCache ==
    [][calls' = calls + 1
       => LET before == CacheOf(last'.op, cache, cache2)
              after == CacheOf(last'.op, cache', cache2')
          IN  /\ last'.id \in DOMAIN before
                 => /\ last'.resp = Some(before[last'.id])
                    /\ last'.validations = 0 /\ last'.runs = 0
                    /\ cache' = cache /\ cache2' = cache2
              /\ last'.id \notin DOMAIN before
                 => /\ last'.id \in DOMAIN after
                    /\ last'.resp = Some(after[last'.id])
              /\ \A id \in DOMAIN cache : id \in DOMAIN cache' /\ cache'[id] = cache[id]
              /\ \A id \in DOMAIN cache2 :
                    id \in DOMAIN cache2' /\ cache2'[id] = cache2[id]]_vars

(* A request for a node that is not in the graph, answered from the cache   *)
(* with the SUCCESS the first request of that identifier got               *)
C1_AbsentGoalAnsweredSuccess ==
    /\ Served /\ last.hit /\ last.goal = Absent
    /\ last.resp[1].status = "SUCCESS"
    /\ last.validations = 0 /\ last.runs = 0

-----------------------------------------------------------------------------
(* Properties of the idempotency cache, calls at the same time (SpecConc) *)

(* Two distinct threads in calls of the same orchestrator with the same     *)
(* request identifier                                                      *)
SameIdentifier(t, u) ==
    /\ t \in DOMAIN thr /\ u \in DOMAIN thr /\ t # u
    /\ thr[t].op = thr[u].op
    /\ thr[t].req.id = thr[u].req.id

(* C2: of the calls made at the same time with one request identifier, at   *)
(* most one runs a shortest-path algorithm, and all that have returned     *)
(* have returned the same response.                                        *)
C2_AtMostOneComputation ==
    \A t \in Threads, u \in Threads :
        SameIdentifier(t, u)
        => /\ ~(thr[t].runs > 0 /\ thr[u].runs > 0)
           /\ (thr[t].pc = "done" /\ thr[u].pc = "done")
              => thr[t].resp = thr[u].resp

(* C4: a call that has returned has returned the response the cache holds   *)
(* for its request identifier, and of the calls with one identifier at     *)
(* most one has written the entry.                                         *)
C4_StoredOnceAsReturned ==
    /\ \A t \in DOMAIN thr :
          (thr[t].pc = "done" /\ thr[t].resp # None)
          => LET c == CacheOf(thr[t].op, cache, cache2)
             IN  thr[t].req.id \in DOMAIN c /\ c[thr[t].req.id] = thr[t].resp[1]
    /\ \A t \in Threads, u \in Threads :
          SameIdentifier(t, u) => ~(thr[t].stored /\ thr[u].stored)

-----------------------------------------------------------------------------
(* Properties of the graph metadata (SpecGraph) *)

(* The node the probe of _detect_negative_cycle starts from *)
ProbeNode == graph.adj[1].node
NoNegativeCycle(adj) == \A v \in NodeSet(adj) : ~NegativeCycleAt(adj, v)

(* C11: the metadata read by get_metadata has has_negative_cycle set when   *)
(* the current edge set has a negative-sum cycle reachable from the first  *)
(* node inserted, and not set when it has no negative-sum cycle at all.    *)
C11_NegativeCycleFlag ==
    graph.validated
    => /\ (Len(graph.adj) > 0 /\ NegativeCycleReachable(graph.adj, ProbeNode))
          => graph.metadata.has_negative_cycle
       /\ NoNegativeCycle(graph.adj) => ~graph.metadata.has_negative_cycle

(* Metadata read, after the last add_edge allowed, on a graph whose        *)
(* negative cycle the probe reaches                                        *)
C11_FlagSetOnReachableCycle ==
    /\ graph.validated /\ graph.metadata.has_negative_cycle
    /\ NegativeCycleReachable(graph.adj, ProbeNode)
    /\ adds = MaxAdds

-----------------------------------------------------------------------------
(* Properties of the statuses of one served request (SpecSvc) *)

(* The validation passed and the Bellman-Ford run of the call ended in its  *)
(* own negative-cycle error                                                *)
CycleFoundByBellmanFord ==
    /\ Served /\ ~last.hit /\ last.runs > 0
    /\ IsNegativeCycle(last.out)

MissingNodes(adj) == {n \in {last.start, last.goal} : ~has_node(adj, n)}

(* The text of the error of the response *)
ErrorText ==
    IF last.op = "route" THEN last.resp[1].error ELSE last.resp[1].error_message

(* A request of SpecSvc that names a node the graph does not have *)
NodeMissing ==
    /\ Served /\ ~last.hit
    /\ MissingNodes(IF last.op = "route" THEN graph.adj ELSE graph2.adj) # {}

ValidationErrors == last.resp[1].metadata.validation_errors
Reported(field, code) ==
    \E i \in 1..Len(ValidationErrors) :
        ValidationErrors[i].field = field /\ ValidationErrors[i].code = code

(* C14: the outcome of validate_route_request holds one error for every     *)
(* rule the request violates: empty graph, negative cycle, start not       *)
(* found, goal not found (the size limits are not reached here).           *)
C14_EveryViolatedRuleReported ==
    (last.op = "route" /\ ~last.hit /\ last.raised = None)
    => /\ Len(graph.adj) = 0 => Reported("graph", "EMPTY_GRAPH")
       /\ graph.metadata.has_negative_cycle => Reported("graph", "NEGATIVE_CYCLE")
       /\ ~has_node(graph.adj, last.start) => Reported("start", "NODE_NOT_FOUND")
       /\ ~has_node(graph.adj, last.goal) => Reported("goal", "NODE_NOT_FOUND")

(* C15: in claude-sonnet-4.5, when the validation passes, a request whose   *)
(* start and goal are the same node is answered SUCCESS with the path of   *)
(* that one node and cost 0, whichever algorithm is selected and whatever  *)
(* failure the algorithm could report.                                     *)
C15_SameNodeSucceeds ==
    (/\ last.op = "route" /\ ~last.hit
     /\ InSeq("validation_passed", last.events)
     /\ last.start = last.goal)
    => /\ last.resp # None
       /\ last.resp[1].status = "SUCCESS"
       /\ last.resp[1].path = Some(<<last.start>>)
       /\ last.resp[1].cost = Some(0)

(* C16: in routing_v2, a request whose start and goal are the same node of  *)
(* the graph is answered VALIDATION_ERROR with an error that says start    *)
(* and goal must differ, on the first attempt and without a run of the     *)
(* algorithm.                                                              *)
C16_SameNodeRejected ==
    (/\ last.op = "compute_route" /\ ~last.hit
     /\ last.start = last.goal /\ has_node(graph2.adj, last.start))
    => /\ last.resp[1].status = "VALIDATION_ERROR"
       /\ last.resp[1].error_message # None
       /\ Contains(last.resp[1].error_message[1],
                   <<"Start", "and", "goal", "must", "differ">>)
       /\ InSeq(last.start, last.resp[1].error_message[1])
       /\ last.resp[1].path = None /\ last.resp[1].cost = None
       /\ last.resp[1].attempt_count = 1
       /\ last.runs = 0

(* Such a request on a graph with a negative edge, served by the            *)
(* Bellman-Ford router                                                     *)
C16_SameNodeOnNegativeGraph ==
    /\ last.op = "compute_route" /\ last.start = last.goal
    /\ has_node(graph2.adj, last.start)
    /\ HasNegativeEdge(graph2.adj) /\ service2.algorithm = "Bellman-Ford"
    /\ last.resp[1].status = "VALIDATION_ERROR"

-----------------------------------------------------------------------------
(* Properties of the Dijkstra implementations (SpecAlgo) *)

(* C17: each Dijkstra implementation, called on a graph that has a          *)
(* negative-weight edge, raises a precondition error that mentions         *)
(* "negative" before it pops the heap once, and returns no path.           *)
C17_DijkstraRejectsNegativeEdges ==
    (Solved /\ HasNegativeEdge(SolvedAdj))
    => /\ last.dijkstra.kind \in {"ValueError", "ValidationError"}
       /\ InSeq("negative", Lower(last.dijkstra.msg))
       /\ last.dijkstra.work = 0
       /\ last.dijkstra.path = <<>>

-----------------------------------------------------------------------------
(* Properties of the routing_v2 routers under the service (SpecSvc) *)

(* The message names the edge e: source, an arrow, target *)
NamesEdge(msg, e) ==
    \/ Contains(msg, <<e.src, "->", e.dst>>)
    \/ Contains(msg, <<e.src, "\\u2192", e.dst>>)

(* A request that passes validate_route_request *)
ValidRequest2 ==
    /\ has_node(graph2.adj, last.start) /\ has_node(graph2.adj, last.goal)
    /\ last.start # last.goal

(* C18: the routing_v2 service with DijkstraRouter, on a graph that has     *)
(* negative-weight edges, answers VALIDATION_ERROR with an error message   *)
(* that mentions "negative" and names each negative edge, not only their   *)
(* number.                                                                 *)
C18_DijkstraNamesNegativeEdges ==
    (/\ last.op = "compute_route" /\ ~last.hit
     /\ service2.algorithm = "Dijkstra"
     /\ HasNegativeEdge(graph2.adj) /\ ValidRequest2)
    => /\ last.resp[1].status = "VALIDATION_ERROR"
       /\ last.resp[1].error_message # None
       /\ InSeq("negative", Lower(last.resp[1].error_message[1]))
       /\ \A i \in 1..Len(get_negative_edges(graph2)) :
              NamesEdge(last.resp[1].error_message[1],
                        get_negative_edges(graph2)[i])

-----------------------------------------------------------------------------
(* Properties of automatic selection (SpecSvc) *)

(* The algorithm a name stands for, whichever package spells it *)
AlgorithmNamed(name) ==
    IF name \in {"Dijkstra", "dijkstra"} THEN "Dijkstra"
    ELSE IF name \in {"Bellman-Ford", "bellman_ford"} THEN "Bellman-Ford"
    ELSE name

(* The algorithm-used field of the last response *)
AlgorithmUsed ==
    IF last.op = "route" THEN last.resp[1].metadata.algorithm_used
    ELSE last.resp[1].algorithm_used[1]

(* A computed SUCCESS response under automatic selection *)
AutoSelectedSuccess ==
    /\ last.op \in {"route", "compute_route"} /\ ~last.hit
    /\ last.op = "compute_route" => service2.algorithm = "AutoSelect"
    /\ last.resp # None /\ last.resp[1].status = "SUCCESS"

(* What the graph of the last call reports about negative weights *)
ReportsNegativeWeights ==
    IF last.op = "route" THEN graph.metadata.has_negative_weights
    ELSE has_negative_weights2(graph2)

(* C19: every SUCCESS response computed under automatic selection names in  *)
(* its algorithm-used field the algorithm that computed the path, which is *)
(* Bellman-Ford when the graph reports negative weights and Dijkstra       *)
(* otherwise.                                                              *)
C19_AlgorithmUsedNamesTheRun ==
    AutoSelectedSuccess
    => /\ AlgorithmNamed(AlgorithmUsed) = AlgorithmNamed(last.out.algo)
       /\ AlgorithmNamed(AlgorithmUsed) =
              IF ReportsNegativeWeights THEN "Bellman-Ford" ELSE "Dijkstra"

-----------------------------------------------------------------------------
(* Properties of the time budget in claude-sonnet-4.5 (SpecSvc) *)

(* A route() call with a time budget that reached the algorithm *)
BudgetedRun ==
    /\ last.op = "route" /\ ~last.hit
    /\ last.budget # None /\ last.out.kind # "none"

(* C20: in claude-sonnet-4.5 the budget is checked before each heap pop of  *)
(* Dijkstra and each relaxation pass of Bellman-Ford; with a budget that   *)
(* elapses after k checks the algorithm makes at most k pops or passes,    *)
(* and the check that finds the budget elapsed aborts the computation:     *)
(* route answers TIMEOUT with no path and no cost.                         *)
C20_BudgetCheckedBeforeEachStep ==
    BudgetedRun
    => /\ last.out.work <= last.budget[1]
       /\ last.out.checks >= last.out.work
       /\ last.out.kind = "TimeoutError" <=> last.out.checks > last.budget[1]
       /\ last.out.kind = "TimeoutError"
          => /\ last.out.work = last.budget[1]
             /\ last.resp # None
             /\ last.resp[1].status = "TIMEOUT"
             /\ last.resp[1].path = None /\ last.resp[1].cost = None

(* A computation aborted after it had made at least one pop or pass *)
C20_AbortedMidway ==
    /\ BudgetedRun /\ last.out.kind = "TimeoutError"
    /\ last.out.work >= 1
    /\ last.resp[1].status = "TIMEOUT"

-----------------------------------------------------------------------------
(* Properties of the attempt loop of routing_v2 (SpecRetry) *)

(* The call that was served last, not from the cache *)
Computed2 == last.op = "compute_route" /\ ~last.hit

(* What pass number n (from 1) of the last call ends in *)
PassOutcome(n) ==
    attempt2([service2 EXCEPT !.algorithm = RouterAt(@, n - 1)], graph2,
             RouteRequest(last.id, last.start, last.goal, None))

Unexpected(out) == out.kind \notin {"ok", "ValidationError", "ValueError"}

EveryPassUnexpected ==
    \A n \in 1..service2.retry_config.max_attempts : Unexpected(PassOutcome(n))

FirstTerminalPass(n) ==
    /\ PassOutcome(n).kind \in {"ValidationError", "ValueError"}
    /\ \A m \in 1..(n - 1) : Unexpected(PassOutcome(m))

(* C22: in routing_v2 compute_route a pass that ends in a validation error, *)
(* a no-path failure or a negative-cycle failure is the last pass: its     *)
(* response carries the error of that pass and attempt_count = the number  *)
(* of that pass, is stored under the request identifier and is returned.   *)
C22_TerminalFailureNotRetried ==
    Computed2
    => \A n \in 1..service2.retry_config.max_attempts :
          FirstTerminalPass(n)
          => /\ last.validations = n
             /\ last.resp[1].attempt_count = n
             /\ last.resp[1].status \in
                    {"VALIDATION_ERROR", "NOT_FOUND", "ALGORITHM_ERROR"}
             /\ last.resp[1].error_message = Some(PassOutcome(n).msg)
             /\ last.out = PassOutcome(n)
             /\ last.id \in DOMAIN cache2 /\ cache2[last.id] = last.resp[1]

(* No path is found in the second pass, after the first raised otherwise,   *)
(* with a third pass allowed                                               *)
C22_NoPathInSecondPass ==
    /\ Computed2 /\ service2.algorithm = "FailsOnce"
    /\ service2.retry_config.max_attempts > 2
    /\ last.resp[1].status = "NOT_FOUND"
    /\ last.resp[1].attempt_count = 2 /\ last.validations = 2

-----------------------------------------------------------------------------
(* Properties of the graph metadata under overwriting (SpecGraph) *)

NegativeEdgeSet(adj) == {e \in EdgeSet(adj) : e.w < 0}
SeqRange(q) == {q[i] : i \in 1..Len(q)}

(* C23: after any sequence of add_edge calls, overwriting ones included,    *)
(* the metadata of the claude-sonnet-4.5 graph and of the routing_v2 graph *)
(* agree with the current edge set: the edge count is the number of        *)
(* ordered pairs present, the negative-weights flag is true exactly when a *)
(* current edge is negative, and the negative edges listed are the         *)
(* current negative edges.                                                 *)
C23_MetadataAgreesWithEdges ==
    /\ graph.metadata.edge_count = Cardinality(EdgeSet(graph.adj))
    /\ graph.metadata.has_negative_weights <=> HasNegativeEdge(graph.adj)
    /\ SeqRange(graph.metadata.negative_edges) = NegativeEdgeSet(graph.adj)
    /\ graph2.edge_count = Cardinality(EdgeSet(graph2.adj))
    /\ has_negative_weights2(graph2) <=> HasNegativeEdge(graph2.adj)
    /\ SeqRange(get_negative_edges(graph2)) = NegativeEdgeSet(graph2.adj)

-----------------------------------------------------------------------------
(* Properties of neighbors() (SpecAlias) *)

(* The adjacency now of the Graph class whose neighbors() was called *)
AdjNow ==
    IF last.kind = "sonnet" THEN graph.adj
    ELSE IF last.kind = "v2" THEN graph2.adj ELSE graph0

(* C24: neighbors(node) returns a snapshot.  Whatever the caller writes to  *)
(* the mapping returned, the adjacency of the graph (so its node set and   *)
(* what neighbors() returns later) is as before the call; for a node that  *)
(* is not in the graph the mapping is empty and the node is not added.     *)
C24_NeighborsIsSnapshot ==
    last.op = "neighbors"
    => /\ AdjNow = last.graph
       /\ \A n \in NodeSet(last.graph) \cup {Absent} :
              AdjGet(AdjNow, n) = AdjGet(last.graph, n)
       /\ ~has_node(last.graph, last.node)
          => (last.out = <<>> /\ ~has_node(AdjNow, last.node))

-----------------------------------------------------------------------------
(* Properties of the serialisation of the routing_v2 graph (SpecRound) *)

(* C25: a routing_v2 graph built from a list of edges (a pair may repeat),  *)
(* serialised with to_dict and built again from the serialised edges, has  *)
(* the same edge set and the same node_count, edge_count and               *)
(* has_negative_weights as the first.                                      *)
C25_RoundTrip ==
    last.op = "to_dict"
    => /\ EdgeSet(last.resp.adj) = EdgeSet(last.graph.adj)
       /\ node_count2(last.resp) = node_count2(last.graph)
       /\ edge_count2(last.resp) = edge_count2(last.graph)
       /\ has_negative_weights2(last.resp) = has_negative_weights2(last.graph)

-----------------------------------------------------------------------------
(* Properties of the responses of both services (SpecSeq) *)

(* A claude-sonnet-4.5 RouteResponse: path, cost and metadata.algorithm_used *)
(* with SUCCESS and only then, error with every other status and only then *)
WellFormedResponse(resp) ==
    /\ resp.path # None <=> resp.status = "SUCCESS"
    /\ resp.cost # None <=> resp.status = "SUCCESS"
    /\ "algorithm_used" \in DOMAIN resp.metadata <=> resp.status = "SUCCESS"
    /\ resp.error # None <=> resp.status # "SUCCESS"

(* The same of a routing_v2 RouteResponse *)
WellFormedResponse2(resp) ==
    /\ resp.path # None <=> resp.status = "SUCCESS"
    /\ resp.cost # None <=> resp.status = "SUCCESS"
    /\ resp.algorithm_used # None <=> resp.status = "SUCCESS"
    /\ resp.error_message # None <=> resp.status # "SUCCESS"

(* C26: every response returned or cached by either service has path, cost  *)
(* and algorithm-used exactly when its status is SUCCESS and an error      *)
(* message exactly when it is not, and carries the identifier of the       *)
(* request it answers, which is the cache key it is stored under.          *)
C26_ResponseShape ==
    /\ (last.op = "route" /\ last.resp # None)
       => (WellFormedResponse(last.resp[1]) /\ last.resp[1].request_id = last.id)
    /\ last.op = "compute_route"
       => (WellFormedResponse2(last.resp[1]) /\ last.resp[1].request_id = last.id)
    /\ \A k \in DOMAIN cache :
          WellFormedResponse(cache[k]) /\ cache[k].request_id = k
    /\ \A k \in DOMAIN cache2 :
          WellFormedResponse2(cache2[k]) /\ cache2[k].request_id = k

(* Each cache holds a response, a failure in one and a success in the      *)
(* other, and the last call was answered from a cache                      *)
C26_BothCachesFilled ==
    /\ \E k \in DOMAIN cache : cache[k].status \notin {"SUCCESS"}
    /\ \E k \in DOMAIN cache2 : cache2[k].status = "SUCCESS"
    /\ last.hit

-----------------------------------------------------------------------------
(* Properties of the log of claude-sonnet-4.5 route (SpecSvc) *)

ComputationOutcomes ==
    {"computation_completed", "computation_failed", "computation_timeout"}

(* The two lifecycles: validation failed, or validation passed and the      *)
(* algorithm selected, started and ended                                   *)
Lifecycles ==
    {<<"request_received", "validation_started", "validation_failed",
       "response_sent">>}
    \cup {<<"request_received", "validation_started", "validation_passed",
            "algorithm_selected", "computation_started", x, "response_sent">> :
          x \in ComputationOutcomes}

(* C27: a claude-sonnet-4.5 route call that is not a cache hit logs, each   *)
(* once and in this order, request_received, validation_started,           *)
(* validation_passed or validation_failed, after validation_passed also    *)
(* algorithm_selected, computation_started and one computation outcome,    *)
(* and response_sent as the last event of every path.                      *)
C27_LifecycleLogged ==
    (last.op = "route" /\ ~last.hit) => last.events \in Lifecycles

-----------------------------------------------------------------------------
(* Properties of the counters of routing_v2 under concurrent calls          *)
(* (SpecConc)                                                              *)

Callers2 == {t \in DOMAIN thr : thr[t].op = "compute_route"}

(* The compute_route calls that were not answered from the cache *)
Computing2 == {t \in Callers2 : thr[t].counter # ""}

(* C28: when the compute_route calls made at the same time on one service   *)
(* have all returned, metrics() reports requests_total = the number of     *)
(* calls and requests_success + requests_error = the number of calls that  *)
(* were not cache hits.                                                    *)
C28_NoLostCount ==
    (\A t \in Callers2 : thr[t].pc = "done")
    => /\ metrics(cache2, counters).requests_total = Cardinality(Callers2)
       /\ metrics(cache2, counters).requests_success
          + metrics(cache2, counters).requests_error = Cardinality(Computing2)

-----------------------------------------------------------------------------
(* Properties of the appointment service (SpecAppt) *)

AfterCreate == last.op = "create_appointment"

(* The last call came with a key that an earlier call had already used *)
SharedKey ==
    /\ AfterCreate
    /\ Truthy(last.key)
    /\ last.key[1] \in DOMAIN last.before.appointments.idempotency

FirstUse ==
    /\ AfterCreate
    /\ Truthy(last.key)
    /\ last.key[1] \notin DOMAIN last.before.appointments.idempotency

(* C29: of the create_appointment calls that share one idempotency key,    *)
(* the first stores the result it returns (confirmed, pending or failed),  *)
(* a stored result is never replaced, and every later call returns the     *)
(* stored result, creates no local record, makes no calendar call and      *)
(* appends no outbox message.                                              *)
C29_ReplayReturnsFirstResult ==
    /\ SharedKey =>
          /\ last.out = last.before.appointments.idempotency[last.key[1]]
          /\ appointments.db = last.before.appointments.db
          /\ appointments.outbox = last.before.appointments.outbox
          /\ appointments.idempotency = last.before.appointments.idempotency
          /\ last.calendar_calls = 0
          /\ calendar = last.before.calendar
    /\ FirstUse =>
          /\ last.key[1] \in DOMAIN appointments.idempotency
          /\ appointments.idempotency[last.key[1]] = last.out
          /\ last.out.status \in {"confirmed", "pending", "failed"}
    /\ last.op \in {"create_appointment", "flush_outbox"} =>
          \A k \in DOMAIN last.before.appointments.idempotency :
             /\ k \in DOMAIN appointments.idempotency
             /\ appointments.idempotency[k]
                = last.before.appointments.idempotency[k]

(* A pending result is replayed on a service that knows two keys, while    *)
(* the breaker has lapsed: a fresh call would have gone to the calendar    *)
C29_PendingReplayed ==
    /\ SharedKey
    /\ last.out.status = "pending"
    /\ Cardinality(DOMAIN appointments.idempotency) = 2
    /\ ~OpenAt(last.before.appointments.circuit, last.before.now)

(* The last call was not a replay and found the breaker open *)
FoundOpen ==
    /\ AfterCreate
    /\ ~SharedKey
    /\ OpenAt(last.before.appointments.circuit, last.before.now)

NewRecords == DOMAIN appointments.db \ DOMAIN last.before.appointments.db

(* C30: a create_appointment call that is not a replay and finds the       *)
(* circuit breaker open makes no calendar call, returns status "pending",  *)
(* creates one local record, with external_state PENDING, and appends one  *)
(* outbox message, with status "pending".                                  *)
C30_OpenBreakerFastFails ==
    FoundOpen =>
       /\ last.calendar_calls = 0
       /\ calendar = last.before.calendar
       /\ last.out.status = "pending"
       /\ Cardinality(NewRecords) = 1
       /\ \A i \in NewRecords :
             /\ appointments.db[i].external_state = "PENDING"
             /\ last.out.appointment = appointments.db[i]
             /\ appointments.outbox =
                   Append(last.before.appointments.outbox,
                          [payload |-> appointments.db[i], status |-> "pending",
                           type |-> "create_calendar"])
       /\ \A i \in DOMAIN last.before.appointments.db :
             appointments.db[i] = last.before.appointments.db[i]

(* The breaker was opened by an earlier call and a call with a new key     *)
(* arrives before the reset timeout has passed                             *)
C30_FastFailedWithNewKey ==
    /\ FoundOpen
    /\ FirstUse
    /\ last.before.calendar.calls > 0
    /\ last.before.now > 0

(* The last call was not a replay, found the breaker closed and went to a  *)
(* calendar that answers every create_event with PermanentError            *)
PermanentRaised ==
    /\ AfterCreate
    /\ ~SharedKey
    /\ ~OpenAt(last.before.appointments.circuit, last.before.now)
    /\ last.before.calendar.mode = "permanent"
    /\ last.max_retries >= 0

(* C31: when the calendar raises a permanent error, create_appointment     *)
(* makes no calendar call after the one that raised, returns status        *)
(* "failed", creates one local record, with external_state FAILED, and     *)
(* appends one outbox message, with status "failed".                       *)
C31_PermanentErrorNotRetried ==
    PermanentRaised =>
       /\ last.calendar_calls = 1
       /\ calendar.calls = last.before.calendar.calls + 1
       /\ last.out.status = "failed"
       /\ Cardinality(NewRecords) = 1
       /\ \A i \in NewRecords :
             /\ appointments.db[i].external_state = "FAILED"
             /\ last.out.appointment = appointments.db[i]
             /\ appointments.outbox =
                   Append(last.before.appointments.outbox,
                          [payload |-> appointments.db[i], status |-> "failed",
                           type |-> "create_calendar"])
       /\ \A i \in DOMAIN last.before.appointments.db :
             appointments.db[i] = last.before.appointments.db[i]

(* A permanent error on a call that allows a retry, on a service that      *)
(* already holds a failed appointment                                      *)
C31_SecondPermanentFailure ==
    /\ PermanentRaised
    /\ last.max_retries = 1
    /\ Len(last.before.appointments.outbox) = 1

AfterFlush == last.op = "flush_outbox"

(* The messages of seq at the positions in R, in their order in seq *)
PickedFrom(seq, R) ==
    [k \in 1..Cardinality(R) |->
        seq[CHOOSE i \in R : Cardinality({j \in R : j <= i}) = k]]

Marked(seq, status) == [k \in 1..Len(seq) |-> [seq[k] EXCEPT !.status = status]]

Positions == 1..Len(last.before.appointments.outbox)

(* C32: after flush_outbox(sender) returns, the outbox holds exactly the   *)
(* messages whose send raised, in their original order, each with status   *)
(* "failed"; the messages whose send succeeded are gone from the outbox,   *)
(* and the returned list has one entry for each of them, in order.         *)
C32_FlushKeepsWhatFailed ==
    AfterFlush =>
       /\ appointments.outbox =
             Marked(PickedFrom(last.before.appointments.outbox, last.raises),
                    "failed")
       /\ Len(last.out) = Cardinality(Positions \ last.raises)
       /\ [k \in 1..Len(last.out) |-> last.out[k].msg] =
             Marked(PickedFrom(last.before.appointments.outbox,
                               Positions \ last.raises), "sent")
       /\ appointments.db = last.before.appointments.db
       /\ appointments.idempotency = last.before.appointments.idempotency

(* Of two queued messages, the first of them pending, the send of the      *)
(* first raises and the send of the second succeeds                        *)
C32_FirstFailsSecondSent ==
    /\ AfterFlush
    /\ Len(last.before.appointments.outbox) = 2
    /\ last.before.appointments.outbox[1].status = "pending"
    /\ last.raises = {1}

(* The last call started on a breaker with no recorded failure and every   *)
(* create_event it could make was answered with TransientError             *)
RetriesExhausted ==
    /\ AfterCreate
    /\ ~SharedKey
    /\ last.before.appointments.circuit.failures = 0
    /\ last.before.appointments.circuit.opened_at = None
    /\ last.max_retries >= 0
    /\ last.before.calendar.mode = "transient"
    /\ last.before.calendar.calls + last.max_retries + 1
          <= last.before.calendar.fail_times

(* C38: a create_appointment call that exhausts its retries on transient   *)
(* calendar errors, started on a closed breaker without recorded failures, *)
(* leaves the breaker open and returns "pending" with one pending outbox   *)
(* message.  opened_at is set by the last record_failure, at the clock     *)
(* reading at which the call returns: the breaker is open at the return    *)
(* exactly if opened_at is set.                                            *)
C38_ExhaustionOpensBreaker ==
    RetriesExhausted =>
       /\ appointments.circuit.opened_at # None
       /\ last.out.status = "pending"
       /\ Len(appointments.outbox) = Len(last.before.appointments.outbox) + 1
       /\ appointments.outbox[Len(appointments.outbox)].status = "pending"

(* C39: no create_event call is made while the circuit breaker is open,    *)
(* neither by a call that starts on an open breaker nor in the middle of   *)
(* the retry loop of the call that opens it.                               *)
C39_NoCalendarCallWhileOpen ==
    AfterCreate => last.open_calls = 0

-----------------------------------------------------------------------------
(* Properties of routing_v2 calls made without retry (SpecRetry) *)

(* C36: a compute_route call made with allow_retry = False invokes the     *)
(* algorithm at most once and makes one pass: an unexpected exception in   *)
(* the first pass ends the call.                                           *)
C36_NoRetryWhenNotAllowed ==
    (Computed2 /\ ~last.allow_retry)
    => /\ last.runs <= 1
       /\ last.resp[1].attempt_count <= 1

-----------------------------------------------------------------------------
(* Properties of the routing_v2 counters in sequential use (SpecSeq) *)

Metrics == metrics(cache2, counters)
MetricsNext == metrics(cache2', counters')

(* This step is one compute_route call *)
ComputeRouteStep == calls' = calls + 1 /\ last'.op = "compute_route"

CountersAgreeWithCache ==
    /\ Metrics.requests_success + Metrics.requests_error = Metrics.cache_size
    /\ Metrics.cache_size = Cardinality(DOMAIN cache2)

CountersFollowCall ==
    IF ComputeRouteStep
    THEN /\ MetricsNext.requests_total = Metrics.requests_total + 1
         /\ IF last'.id \in DOMAIN cache2
            THEN /\ last'.hit
                 /\ cache2' = cache2
                 /\ MetricsNext.requests_success = Metrics.requests_success
                 /\ MetricsNext.requests_error = Metrics.requests_error
            ELSE /\ ~last'.hit
                 /\ DOMAIN cache2' = DOMAIN cache2 \cup {last'.id}
                 /\ MetricsNext.requests_success + MetricsNext.requests_error
                    = Metrics.requests_success + Metrics.requests_error + 1
    ELSE MetricsNext = Metrics

(* C37: on one routing_v2 service called sequentially, requests_total      *)
(* starts at 0 and grows by one with every compute_route call, cache hits  *)
(* included, and with nothing else; requests_success + requests_error      *)
(* always equals cache_size, the number of distinct request identifiers    *)
(* seen, which grows by one with every call that brings a new identifier;  *)
(* a call with a known identifier is a cache hit and changes neither the   *)
(* cache nor the success and error counters.                               *)
C37_CountersFollowCalls ==
    /\ Metrics.requests_total = 0
    /\ []CountersAgreeWithCache
    /\ [][CountersFollowCall]_vars

(* A cache hit on a service that has counted a success and an error *)
C37_HitAfterSuccessAndError ==
    /\ last.op = "compute_route" /\ last.hit
    /\ Metrics.requests_success = 1 /\ Metrics.requests_error = 1
    /\ Metrics.requests_total = 3

-----------------------------------------------------------------------------
(* Properties of the Dijkstra loop (SpecDijkstra) *)

Run == thr["t1"]

(* A run is under way or over, on a graph without negative-weight edge *)
NonNegativeRun ==
    /\ "t1" \in DOMAIN thr
    /\ Run.op = "dijkstra"
    /\ ~HasNegativeEdge(RunAdj(Run.kind))

Popped == NonNegativeRun /\ last.op = "heappop"

(* The full-run operators end as the stepwise run ends *)
RunOutcome ==
    CASE Run.kind = "sonnet" -> DijkstraAlgorithm(graph, Run.start, Run.goal, None)
      [] Run.kind = "v2" -> DijkstraRouter(graph2, Run.start, Run.goal)
      [] OTHER -> dijkstra_shortest_path(graph0, Run.start, Run.goal)

StepwiseAgrees ==
    ("t1" \in DOMAIN thr /\ Run.op = "dijkstra" /\ Run.pc = "done")
    => IF DijkstraRefuses(Run.kind) THEN RunOutcome.kind # "ok"
       ELSE IF last.op = "raise" THEN IsNoPath(RunOutcome)
       ELSE /\ RunOutcome.kind = "ok"
            /\ RunOutcome.cost = last.cost
            /\ RunOutcome.work = Run.st.work
            /\ RunOutcome.path = reconstruct_path(Run.st.prev, Run.goal)

(* C35: in a Dijkstra run on a graph without negative-weight edge the      *)
(* finalized set is empty at the start and grows only by the node just     *)
(* popped from the priority queue, the least entry of the queue; the cost  *)
(* popped with a node that becomes finalized is the least cost of a path   *)
(* from start to it; the neighbor loop is entered at most once for each    *)
(* node; and a turn that pops an already finalized node changes nothing    *)
(* but the queue, from which the entry is gone.                            *)
C35_FinalizedWhenPopped ==
    /\ (NonNegativeRun /\ last.op = "start") => Run.st.visited = {}
    /\ (NonNegativeRun /\ last.op = "raise") => Run.st = last.before.st
    /\ Popped =>
          /\ <<last.cost, last.node>> \in last.before.st.heap
          /\ \A e \in last.before.st.heap : last.cost <= e[1]
          /\ Run.st.visited = last.before.st.visited \cup {last.node}
          /\ last.node \notin last.before.st.visited =>
                IsMinCost(RunAdj(Run.kind), Run.start, last.node, last.cost)
          /\ last.node \in last.before.st.visited =>
                /\ Run.st.dist = last.before.st.dist
                /\ Run.st.prev = last.before.st.prev
                /\ Run.st.heap
                   = last.before.st.heap \ {<<last.cost, last.node>>}
                /\ Run.relaxed = last.before.relaxed
    /\ NonNegativeRun =>
          /\ \A i, j \in 1..Len(Run.relaxed) :
                Run.relaxed[i] = Run.relaxed[j] => i = j
          /\ \A i \in 1..Len(Run.relaxed) : Run.relaxed[i] \in Run.st.visited

(* A stale entry is popped: its node was finalized at a lower cost *)
C35_StaleEntryPopped ==
    /\ Popped
    /\ last.node \in last.before.st.visited
    /\ last.cost > DGet(Run.st.dist, last.node)

-----------------------------------------------------------------------------
(* Properties of post_change_project (SpecCircuit, SpecPost, FairPost) *)

AfterDeliver == last.op = "_call_provider"

(* C40: while the circuit is open _call_provider raises circuit-open and   *)
(* does not invoke the provider; once the open window is over, the circuit *)
(* opens again only on the CIRCUIT_THRESHOLD-th provider failure in a row  *)
(* since it opened, never on a single failure.                             *)
C40_ReopensAfterThresholdFailures ==
    AfterDeliver =>
        /\ last.met = "open" =>
               last.out = "circuit-open" /\ ~last.invoked /\ last.same
        /\ last.met = "window-over" /\ last.opened =>
               last.streak >= CIRCUIT_THRESHOLD

(* The part of C40 that holds: an open circuit rejects without a call *)
C40_OpenCircuitRejects ==
    AfterDeliver /\ last.met = "open" =>
        last.out = "circuit-open" /\ ~last.invoked /\ last.same

C40_RejectedWhileOpen ==
    AfterDeliver /\ last.met = "open"

PostThreads == {t \in DOMAIN thr : thr[t].op = "create_appointment"}
Over(t) == t \in PostThreads /\ thr[t].pc = "done"
Stored(request_id) == STORE.appointments[request_id]

(* The state of a record is set once: pending, then confirmed or failed *)
StateSetOnce ==
    /\ \A q \in DOMAIN STORE.appointments :
          /\ q \in DOMAIN STORE'.appointments
          /\ \/ STORE'.appointments[q].state = Stored(q).state
             \/ /\ Stored(q).state = "pending"
                /\ STORE'.appointments[q].state \in {"confirmed", "failed"}
    /\ \A q \in DOMAIN STORE'.appointments \ DOMAIN STORE.appointments :
          STORE'.appointments[q].state = "pending"

(* The first call for a request_id makes at most max_attempts deliveries *)
(* and returns the state it stored, failed when every delivery failed    *)
FirstCallBounded ==
    \A t \in PostThreads :
        /\ thr[t].provider_calls <= thr[t].max_attempts
        /\ ~thr[t].allocated => thr[t].provider_calls = 0
        /\ Over(t) /\ thr[t].allocated =>
              /\ thr[t].resp[1].state = Stored(thr[t].request_id).state
              /\ thr[t].resp[1].state \in {"confirmed", "failed"}
              /\ thr[t].failed = thr[t].max_attempts =>
                     thr[t].resp[1].state = "failed"

(* C34: a record starts as pending and its state changes at most once, to *)
(* confirmed or to failed; the first create_appointment call for a        *)
(* request_id comes to an end after at most max_attempts deliveries, and  *)
(* when all of them failed it leaves and returns the state failed.        *)
C34_StateSetOnceAndCompensated ==
    /\ [][StateSetOnce]_vars
    /\ []FirstCallBounded
    /\ \A t \in Threads : (t \in PostThreads) ~> Over(t)

C34_EveryDeliveryFailed ==
    \E t \in PostThreads :
        /\ Over(t) /\ thr[t].allocated
        /\ thr[t].max_attempts = 2 /\ thr[t].failed = 2
        /\ thr[t].resp[1].state = "failed"

Callers(q) == {t \in PostThreads : thr[t].request_id = q}
Entered(q) == {t \in Callers(q) : thr[t].pc # "allocate"}
OutboxEntries(q) ==
    {i \in DOMAIN STORE.outbox : STORE.outbox[i].request_id = q}

(* C33: however the calls of create_appointment with one request_id are  *)
(* interleaved, there is one record and one outbox entry for it, at most *)
(* one of the callers calls the provider, and all of them are returned   *)
(* the id of that record.                                                *)
C33_OneRecordPerRequestId ==
    \A q \in PostRequestIds :
        /\ Cardinality(OutboxEntries(q)) =
               IF q \in DOMAIN STORE.appointments THEN 1 ELSE 0
        /\ Entered(q) # {} => q \in DOMAIN STORE.appointments
        /\ Cardinality({t \in Callers(q) : thr[t].allocated}) <= 1
        /\ \A t \in Callers(q) :
              /\ thr[t].provider_calls > 0 => thr[t].allocated
              /\ Over(t) => thr[t].resp[1].id = Stored(q).id

C33_TwoCallersOneDelivery ==
    \E q \in PostRequestIds :
        /\ Callers(q) = Threads
        /\ \A t \in Threads : Over(t)
        /\ \E t, u \in Threads :
              /\ thr[t].payload.id # thr[u].payload.id
              /\ thr[t].provider_calls > 0 /\ thr[u].provider_calls = 0
              /\ thr[u].resp[1].id = thr[t].payload.id

====
